---- MODULE Spec2Model ----
(***************************************************************************)
(* Review scraper and job tracker of the e-commerce review analysis       *)
(* backend.                                                                *)
(*                                                                         *)
(* Two state machines are modelled from the source:                        *)
(*   - the scrape session (AmazonScraper.scrape_reviews and                *)
(*     FlipkartScraper.scrape_reviews): SpecSession / FairSpecSession;     *)
(*   - the job registry of routers/scraping.py with its background driver  *)
(*     run_scrape_job and services/scraper/base.py scrape_product: Spec.   *)
(***************************************************************************)
EXTENDS Integers, Sequences, FiniteSets, TLC

(***************************************************************************)
(* Bounds of the model                                                     *)
(***************************************************************************)
\* number of distinct review texts the pages can carry
NumTexts == 2
\* number of products of the analysis endpoints
NumProducts == 2
\* number of 12-hour steps the clock takes
MaxTicks == 2
\* number of re-runs reanalyze queues
MaxRuns == 1
\* number of stage runs the analysis endpoints make
MaxComputes == 2
\* length of a long review text
LongText == 60
\* largest number of review containers on one fetched page
MaxPageLen == 2
\* largest max_reviews a caller asks for (ScrapeRequest allows 10..500; the
\* model scales the sizes down)
MaxReviews == 2
\* number of scrape jobs started
MaxJobs == 2
\* number of threads that call get_sentiment_pipeline
NumCallers == 3
\* amazon.py 114-121: the largest number a star element is followed to carry
MaxStars == 6

(***************************************************************************)
(* Program constants                                                       *)
(***************************************************************************)
\* flipkart.py: max_pages = 25
max_pages == 25
\* loop guards: consecutive_empty < 3 and consecutive_errors < 5
max_empty == 3
max_errors == 5

\* The page counter is a Python int.  The code only compares it with 1 and
\* with max_pages, so every value above max_pages + 1 behaves alike and the
\* counter is kept at PageCap once it gets there.
PageCap == max_pages + 2

None == "None"

Texts == 1..NumTexts
\* a review container whose parse yields no review (_parse_review -> None)
Unparsed == 0
Divs == Texts \cup {Unparsed}

SeqsUpTo(S, n) == UNION {[1..k -> S] : k \in 0..n}
\* the review containers one fetched page can hold
Pages == SeqsUpTo(Divs, MaxPageLen)

Platforms == {"amazon", "flipkart"}

VARIABLES
    \* ---- scrape session (scrape_reviews locals) ----
    platform,            \* which scraper class runs
    url_kind,            \* "product" | "no_asin" (amazon) | "search" (flipkart)
    max_reviews,
    pc,                  \* "resolve" | "loop" | "returned" | "raised"
    reviews,
    page,
    consecutive_empty,
    consecutive_errors,
    fetched_page,        \* page index of the latest paginated fetch, 0 if none
    outcome,             \* what the latest step of the session met
    dup_seen,            \* some extracted review was skipped as a duplicate
    events,              \* what the latest step of the session did on the network
    \* ---- job registry and drivers ----
    scrape_jobs,
    drivers,
    products,
    response,            \* what the latest API call answered
    \* ---- analysis orchestrator and cache ----
    cache,               \* the analysis_cache rows, in insertion order
    now,                 \* datetime.utcnow(), in seconds
    runs,                \* the run_complete_analysis tasks reanalyze queued
    reqs,                \* sentiment requests suspended in the classifier
    last_analyzed,       \* Product.last_analyzed of each product
    computed,            \* number of results the endpoints' stage runs returned
    calls,               \* the two latest answers of the analysis endpoints
    \* ---- a persisted review ----
    review,
    \* ---- the classifier singleton ----
    sentiment_pipeline,  \* the module global _sentiment_pipeline
    loads,               \* number of times the model has been loaded
    callers,             \* the threads inside get_sentiment_pipeline
    \* ---- the tables of a product ----
    tables,              \* the committed review, aspect and topic rows
    scrape,              \* the scrape_product task that writes them
    stage_out,           \* what the latest analysis stage found and returned
    classifier,          \* the label and confidence the model gives
    \* ---- calls of pure functions ----
    lda,                 \* the documents of a simple_lda call and its return
    raw_review           \* a review as its parser is about to build, or has built, it

sessionVars == <<platform, url_kind, max_reviews, pc, reviews, page,
                 consecutive_empty, consecutive_errors, fetched_page,
                 outcome, dup_seen, events>>
jobVars == <<scrape_jobs, drivers, products, response>>
analysisVars == <<cache, now, runs, reqs, last_analyzed, computed, calls>>
reviewVars == <<review>>
pipelineVars == <<sentiment_pipeline, loads, callers>>
storeVars == <<tables, scrape, stage_out, classifier>>
pureVars == <<lda, raw_review>>
vars == <<platform, url_kind, max_reviews, pc, reviews, page,
          consecutive_empty, consecutive_errors, fetched_page,
          outcome, dup_seen, events, scrape_jobs, drivers, products, response,
          cache, now, runs, reqs, last_analyzed, computed, calls, review,
          sentiment_pipeline, loads, callers,
          tables, scrape, stage_out, classifier, lda, raw_review>>

(***************************************************************************)
(* Helpers of the review loop                                              *)
(***************************************************************************)
Range(s) == {s[i] : i \in 1..Len(s)}

RECURSIVE Filter(_)
\* _extract_reviews_from_soup keeps the containers that parse to a review
Filter(divs) ==
    IF divs = <<>> THEN <<>>
    ELSE IF Head(divs) = Unparsed THEN Filter(Tail(divs))
         ELSE <<Head(divs)>> \o Filter(Tail(divs))

\* 'not any(r["text"] == review["text"] for r in reviews)' then append
AppendIfNewBroken(revs, t) == Append(revs, t)
AppendIfNew(revs, t) == IF t \in Range(revs) THEN revs ELSE Append(revs, t)

RECURSIVE AddReviewsUncapped(_, _, _)
\* the for loop without 'if len(reviews) >= max_reviews: break'
AddReviewsUncapped(revs, divs, max) ==
    IF divs = <<>> THEN revs
    ELSE IF Head(divs) = Unparsed THEN AddReviewsUncapped(revs, Tail(divs), max)
    ELSE AddReviewsUncapped(AppendIfNew(revs, Head(divs)), Tail(divs), max)

RECURSIVE AddReviews(_, _, _)
\* the for loop over the page's containers: stop once max_reviews are held,
\* skip a container that does not parse, append a review whose text is new
AddReviews(revs, divs, max) ==
    IF divs = <<>> THEN revs
    ELSE IF Len(revs) >= max THEN revs
    ELSE IF Head(divs) = Unparsed THEN AddReviews(revs, Tail(divs), max)
    ELSE AddReviews(AppendIfNew(revs, Head(divs)), Tail(divs), max)

RECURSIVE SkipsDuplicate(_, _, _)
\* the for loop meets a review whose text is already held
SkipsDuplicate(revs, divs, max) ==
    IF divs = <<>> \/ Len(revs) >= max THEN FALSE
    ELSE IF Head(divs) = Unparsed THEN SkipsDuplicate(revs, Tail(divs), max)
    ELSE Head(divs) \in Range(revs)
         \/ SkipsDuplicate(AppendIfNew(revs, Head(divs)), Tail(divs), max)

NextPage(p) == IF p < PageCap THEN p + 1 ELSE p

\* while len(reviews) < max_reviews and consecutive_empty < 3
\*       and consecutive_errors < 5
LoopGuard ==
    /\ Len(reviews) < max_reviews
    /\ consecutive_empty < max_empty
    /\ consecutive_errors < max_errors

\* flipkart only: 'if page > max_pages: break' at the top of the body
PageCeilingHit == platform = "flipkart" /\ page > max_pages

\* the loop body runs and reaches the fetch of the current page
CanFetch ==
    /\ pc = "loop"
    /\ LoopGuard
    /\ ~PageCeilingHit
    /\ url_kind # "no_asin"


(***************************************************************************)
(* Scrape session: scrape_reviews of both scrapers.  One action is one     *)
(* pass through the loop body (or the step before / after the loop); the   *)
(* response of the fetch is the action's input.                            *)
(***************************************************************************)
\* What a step of the session does on the network, in program order:
\* the randomized sleep before a request (amazon.py 192-194 and 263,
\* flipkart.py 232-234)
Delay == "delay"
\* the request itself (amazon.py 196-201 and 264, flipkart.py 236 and 288)
Fetch == "fetch"
\* a sleep of fixed length (amazon.py 210, 229 and 302, flipkart.py 279)
Wait == "wait"
\* self.session = requests.Session() (amazon.py 212 and 230)
Rotate == "rotate"

\* find_product_url_from_search 284-301: the request is the first statement
find_product_url_from_search == <<Fetch>>

NoCall == [op |-> "none"]

JobIdle ==
    /\ scrape_jobs = <<>>
    /\ drivers = <<>>
    /\ products = <<>>
    /\ response = NoCall

(***************************************************************************)
(* Analysis orchestrator and cache (services/analysis/runner.py,           *)
(* routers/analysis.py). The products of this specification exist, so the  *)
(* handlers' 404 return, which changes nothing, is never taken. A stage    *)
(* suspends only in the sentiment stage, at asyncio.to_thread, and only    *)
(* when the product has reviews; everything else of a handler or of the    *)
(* orchestrator runs without an await. Scrapes may replace the reviews at  *)
(* any time, so whether a product has reviews is open at every stage call. *)
(***************************************************************************)
ProductIds == 1..NumProducts

\* analysis.py 30: a cache entry is served while its age is below 24 hours
TTL == 86400

\* the clock moves in steps of 12 hours
ClockStep == TTL \div 2

\* analysis.py 61, 135: the analysis_type of an endpoint. get_aspect_analysis
\* (75-96) and get_topic_analysis (99-120) are get_insights (123-144) line for
\* line with another stage and type, and like it never suspend, so
\* "insights" stands for the three.
AnalysisTypes == {"sentiment", "insights"}

\* runner.py 30-48 in the order of the docstring (lines 13-16)
StagesDocstringOrder ==
    <<"sentiment", "aspects", "topics", "fake_detection", "insights">>

\* runner.py 30-48: the awaits of run_complete_analysis, in program order
Stages == <<"sentiment", "fake_detection", "aspects", "topics", "insights">>

\* a failure point of a run: the index of the stage that raises, 0 for none
NoFailure == 0
FailurePoints == {NoFailure} \cup DOMAIN Stages

\* The dict a stage returns. It carries analyzed_at = utcnow().isoformat()
\* (sentiment.py 198, insights.py 124), a microsecond timestamp that no two
\* computations share: the serial number of the computation stands for it.
\* form tells the Python dict (insights.py 116: integer keys) from its JSON
\* column value and from the response model built from either.
Result(analysis_type, product_id, serial) ==
    [analysis_type |-> analysis_type, product_id |-> product_id,
     serial |-> serial, form |-> "dict"]

NoResults == [form |-> "none"]

\* models/analysis.py 37: results is a JSON column (keys become strings)
ToJson(results) == [results EXCEPT !.form = "json"]

\* schemas/analysis.py 18-86: SentimentResponse(**d) ... InsightsResponse(**d)
\* (rating_distribution: Dict[int, int] turns the keys back to integers)
ResponseModel(results) == [results EXCEPT !.form = "model"]

Max(S) == CHOOSE x \in S : \A y \in S : y <= x

\* analysis.py 17-25: the rows of the key; created_at is a microsecond
\* timestamp, so the row with the greatest created_at is the one added last
EntriesOf(c, product_id, analysis_type) ==
    {i \in DOMAIN c : /\ c[i].product_id = product_id
                      /\ c[i].analysis_type = analysis_type}

\* get_cached_analysis with the expiry test of line 30 written as age <= 86400
get_cached_analysis_inclusive(c, product_id, analysis_type, at) ==
    LET rows == EntriesOf(c, product_id, analysis_type)
    IN  IF rows = {} THEN NoResults
        ELSE IF at - c[Max(rows)].created_at <= TTL THEN c[Max(rows)].results
        ELSE NoResults

\* get_cached_analysis 15-33
get_cached_analysis(c, product_id, analysis_type, at) ==
    LET rows == EntriesOf(c, product_id, analysis_type)
    IN  IF rows = {} THEN NoResults
        ELSE IF at - c[Max(rows)].created_at < TTL THEN c[Max(rows)].results
        ELSE NoResults

\* models/analysis.py 33-38 as built by save_analysis_cache 38-42
CacheRow(product_id, analysis_type, results, at) ==
    [product_id |-> product_id, analysis_type |-> analysis_type,
     results |-> ToJson(results), created_at |-> at]

\* save_analysis_cache that overwrites the newest row of the key when there
\* is one
save_analysis_cache_in_place(c, product_id, analysis_type, results, at) ==
    LET rows == EntriesOf(c, product_id, analysis_type)
    IN  IF rows = {}
        THEN Append(c, CacheRow(product_id, analysis_type, results, at))
        ELSE [c EXCEPT ![Max(rows)] =
                          CacheRow(product_id, analysis_type, results, at)]

\* save_analysis_cache 36-44
save_analysis_cache(c, product_id, analysis_type, results, at) ==
    Append(c, CacheRow(product_id, analysis_type, results, at))

\* Product.last_analyzed of a product never analysed (models/product.py 20:
\* NULL)
NeverAnalyzed == -1

AnalysisIdle ==
    /\ cache = <<>>
    /\ now = 0
    /\ runs = <<>>
    /\ reqs = <<>>
    /\ last_analyzed = [p \in ProductIds |-> NeverAnalyzed]
    /\ computed = 0
    /\ calls = <<>>


(***************************************************************************)
(* A persisted review and the stages that write its analysis columns       *)
(* (models/review.py, services/analysis/sentiment.py, fake_detection.py).  *)
(* Each stage treats the reviews of a product one by one, so one review    *)
(* row is followed. Its text is given by what the stages measure of it;    *)
(* the scrapers strip the text, so it has no surrounding whitespace.       *)
(***************************************************************************)
\* len(text.split())
WordCounts == {0, 1, 4, 5, 9, 10, 14, 15, 19, 20}
\* len(review_text)
Lengths == {0, 2, 3, LongText}
\* number of upper-case characters: none, half (rounded down) or all
UpperCounts == {0} \cup {l \div 2 : l \in Lengths} \cup Lengths
\* review_text.count('!')
ExclamationCounts == {0, 3, 4}
\* number of GENERIC_PHRASES found in the text (fake_detection.py 13-18, 41)
GenericCounts == {0, 1, 3, 4, 5}
\* number of spam_patterns that match (fake_detection.py 62-66)
SpamCounts == {0, 1, 3}
\* Flipkart keeps ratings 1..5 (flipkart.py 81-87)
Ratings == 1..5

\* the measures that some text has: a text of n characters has at most
\* (n + 1) \div 2 words, the shortest generic phrase has 6 characters, the
\* shortest spam match 7
TextOk(t) ==
    /\ (t.words = 0) <=> (t.length = 0)
    /\ 2 * t.words <= t.length + 1
    /\ t.upper \in {0, t.length \div 2, t.length}
    /\ t.upper + t.exclamations <= t.length
    /\ (t.generic > 0 \/ t.spam > 0) => t.length = LongText

ScrapedReviews ==
    {t \in [words : WordCounts, length : Lengths, upper : UpperCounts,
            exclamations : ExclamationCounts, generic : GenericCounts,
            spam : SpamCounts, rating : Ratings, verified : BOOLEAN] : TextOk(t)}

\* sentiment scores in thousandths (Numeric(4, 3), models/review.py 28)
Half == 500
\* the scores the classifier gives to its label
ClassifierScores == {600, 999}

\* base.py 112-120: the row added for a scraped review; the analysis columns
\* take their defaults (models/review.py 27-30, 34). classified is TRUE once
\* the text has been given to the classifier, scored once detect_fake_reviews
\* has written the row.
NewReview(t) ==
    [words |-> t.words, length |-> t.length, upper |-> t.upper,
     exclamations |-> t.exclamations, generic |-> t.generic, spam |-> t.spam,
     rating |-> t.rating, verified |-> t.verified,
     sentiment_label |-> None, sentiment_score |-> 0,
     is_suspicious |-> FALSE, suspicious_score |-> 0,
     classified |-> FALSE, scored |-> FALSE]

Min(a, b) == IF a <= b THEN a ELSE b

\* calculate_suspicious_score without the break of line 70: every matching
\* spam pattern adds its 10 points
calculate_suspicious_score_no_break(r) ==
    LET short_extreme == IF r.words < 10 /\ r.rating \in {1, 5} THEN 30
                         ELSE IF r.words < 20 /\ r.rating \in {1, 5} THEN 15
                         ELSE 0
        unverified == IF ~r.verified THEN 25 ELSE 0
        generic == Min(20, r.generic * 5)
        caps == IF 2 * r.upper > (IF r.length > 1 THEN r.length ELSE 1)
                THEN 10 ELSE 0
        exclamation == IF r.exclamations > 3 THEN 5 ELSE 0
        very_short == IF r.words < 5 THEN 10 ELSE 0
        perfect_short == IF r.rating = 5 /\ r.words < 15 THEN 10 ELSE 0
        spam == 10 * r.spam
    IN  Min(100, short_extreme + unverified + generic + caps + exclamation
                 + very_short + perfect_short + spam)

\* calculate_suspicious_score 21-72 (caps_ratio > 0.5 with caps_ratio =
\* upper / max(len, 1) is 2 * upper > max(len, 1))
calculate_suspicious_score(r) ==
    LET short_extreme == IF r.words < 10 /\ r.rating \in {1, 5} THEN 30
                         ELSE IF r.words < 20 /\ r.rating \in {1, 5} THEN 15
                         ELSE 0
        unverified == IF ~r.verified THEN 25 ELSE 0
        generic == Min(20, r.generic * 5)
        caps == IF 2 * r.upper > (IF r.length > 1 THEN r.length ELSE 1)
                THEN 10 ELSE 0
        exclamation == IF r.exclamations > 3 THEN 5 ELSE 0
        very_short == IF r.words < 5 THEN 10 ELSE 0
        perfect_short == IF r.rating = 5 /\ r.words < 15 THEN 10 ELSE 0
        spam == IF r.spam > 0 THEN 10 ELSE 0
    IN  Min(100, short_extreme + unverified + generic + caps + exclamation
                 + very_short + perfect_short + spam)

\* fake_detection.py 100 with a strict comparison
IsSuspiciousStrict(score) == score > 50

\* fake_detection.py 100
IsSuspicious(score) == score >= 50

\* no review row is followed
ReviewIdle == review = None

(***************************************************************************)
(* The tables of one product and the analysis stages that read and write   *)
(* them (services/scraper/base.py 97-123, services/analysis/*.py). A       *)
(* review text is known by what the stages find in it. Scores are kept in  *)
(* thousandths, percentages in tenths and the overall scores in            *)
(* hundredths, as the stages round them; the divisions are exact where     *)
(* Python's are in floating point.                                         *)
(***************************************************************************)
\* topics.py 158: fewer documents than this and no topic is stored
min_documents == 10
\* topics.py 85: a topic word is carried by at least this many documents
min_topic_documents == 3

\* the one-word text (an Amazon review that took its title as text)
ShortText == 0

\* amazon.py 114-121: the rating is the first number of the star element's
\* text, rounded; no range is tested (flipkart.py 81-87 keeps 1..5 only).
\* The ends of the star scale and a number above it are followed.
ParsedRatings == {1, 5, MaxStars}

\* what a session returns for a product: up to two reviews among the short
\* text and one long one, or a page-load of long ones, one review fewer than
\* the topic stage asks for, or just as many. No two have the same text.
LongReviews(n) == [i \in 1..n |-> [text |-> i, rating |-> 1 + (i % 5)]]
ScrapedSets ==
    {s \in SeqsUpTo([text : {ShortText, 1}, rating : ParsedRatings], 2) :
        \A i, k \in DOMAIN s : s[i].text = s[k].text => i = k}
    \cup {LongReviews(min_documents - 1), LongReviews(min_documents)}

\* base.py 112-121: the rows of a review set, analysis columns at their
\* defaults. The id of a row is its place in the table: the reviews of the
\* product are deleted before these are added, and SQLite, the configured
\* database (config.py 17), numbers a new row one above the largest id.
NewRows(s) ==
    [i \in DOMAIN s |-> [text |-> s[i].text, rating |-> s[i].rating,
                         sentiment_label |-> None, sentiment_score |-> 0,
                         is_suspicious |-> FALSE]]

\* the columns a scrape writes
Scraped(rows) ==
    [i \in DOMAIN rows |-> [text |-> rows[i].text, rating |-> rows[i].rating]]

\* total_reviews is Product.total_reviews (models/product.py 17, default 0)
NoTables == [reviews |-> <<>>, aspects |-> <<>>, topics |-> <<>>,
             total_reviews |-> 0]

\* what the classifier is given: texts and sentences fall in two classes
Tones == {0, 1}
Tone(text) == text % 2

\* the label and confidence a pipeline call gives, after the mapping of
\* sentiment.py 89-94; the confidence is 0 or 1 at its ends
ClassifierOutputs == {"positive", "negative", "neutral"} \X {0, 1000}

\* a deterministic classifier
Classifiers == [Tones -> ClassifierOutputs]

\* sentiment.py 96-99: what a failed batch is filled with
NeutralHalf == <<"neutral", Half>>

\* aspects.py 108-112: the sentences of a text that mention an aspect, in
\* the order of ASPECT_KEYWORDS (price 18, battery 26), with the class the
\* classifier puts the sentence in
Mentions(text) ==
    CASE text = 1 -> << [aspect |-> "battery", tone |-> 1] >>
      [] text = 2 -> << [aspect |-> "price", tone |-> 0],
                        [aspect |-> "battery", tone |-> 0] >>
      [] text = 3 -> << [aspect |-> "battery", tone |-> 1] >>
      [] OTHER -> << >>

\* topics.py 155-156: the text gives a document of three words or more
HasDocument(text) == text # ShortText

\* the word of the text that simple_lda counts
Keyword(text) == IF text % 2 = 1 THEN "screen" ELSE "battery"

\* fake_detection.py 21-72 on the row: the short text is one word from an
\* unverified buyer, the long ones are 20 words from verified buyers
Measured(r) ==
    IF r.text = ShortText
    THEN [words |-> 1, length |-> 3, upper |-> 0, exclamations |-> 0,
          generic |-> 0, spam |-> 0, verified |-> FALSE, rating |-> r.rating]
    ELSE [words |-> 20, length |-> LongText, upper |-> 0, exclamations |-> 0,
          generic |-> 0, spam |-> 0, verified |-> TRUE, rating |-> r.rating]

RECURSIVE SumSeq(_)
SumSeq(s) == IF s = <<>> THEN 0 ELSE Head(s) + SumSeq(Tail(s))

CountIn(s, v) == Cardinality({i \in DOMAIN s : s[i] = v})

\* round(a / b, n) on the scaled integers: to the nearest, halves to even
Round(a, b) ==
    LET q == a \div b
        r == a % b
    IN  IF 2 * r < b THEN q
        ELSE IF 2 * r > b THEN q + 1
        ELSE IF q % 2 = 0 THEN q ELSE q + 1

\* max(0, min(100, x)) on hundredths
Clamp(x) == IF x < 0 THEN 0 ELSE IF x > 10000 THEN 10000 ELSE x

\* sentiment.py 146-153, aspects.py 131-136: positive adds the confidence,
\* negative takes it off
Signed(label, score) ==
    IF label = "positive" THEN score
    ELSE IF label = "negative" THEN 0 - score
    ELSE 0

Labels(rows) == [i \in DOMAIN rows |-> rows[i].sentiment_label]

\* round(count / total * 100, 1), in tenths
Percent1(count, total) == Round(1000 * count, total)

\* sentiment.py 188-195, insights.py 55-62
Distribution(labels, total) ==
    [positive_percent |-> Percent1(CountIn(labels, "positive"), total),
     negative_percent |-> Percent1(CountIn(labels, "negative"), total),
     neutral_percent |-> Percent1(CountIn(labels, "neutral"), total)]

\* analyze_product_sentiment 104-199 on the reviews of the product, the
\* classifier thread having given (or failed to give) its labels
analyze_product_sentiment(t, clf, raised) ==
    IF t.reviews = <<>>
    THEN [tables |-> t,
          results |-> [type |-> "sentiment", overall_score |-> 5000,
                       distribution |-> Distribution(<<>>, 1)]]
    ELSE LET n == Len(t.reviews)
             sentiments == [i \in 1..n |->
                              IF raised THEN NeutralHalf
                              ELSE clf[Tone(t.reviews[i].text)]]
             rows == [i \in 1..n |->
                        [t.reviews[i] EXCEPT
                            !.sentiment_label = sentiments[i][1],
                            !.sentiment_score = sentiments[i][2]]]
             total_score == SumSeq([i \in 1..n |->
                               Signed(sentiments[i][1], sentiments[i][2])])
             \* ((total_score / total) + 1) / 2 * 100
             overall_score == Clamp(Round((total_score + 1000 * n) * 5, n))
         IN  [tables |-> [t EXCEPT !.reviews = rows],
              results |-> [type |-> "sentiment",
                           overall_score |-> overall_score,
                           distribution |-> Distribution(Labels(rows), n)]]

\* detect_fake_reviews 75-126
detect_fake_reviews(t) ==
    IF t.reviews = <<>>
    THEN [tables |-> t,
          results |-> [type |-> "fake_detection", suspicious_percent |-> 0]]
    ELSE LET n == Len(t.reviews)
             rows == [i \in 1..n |->
                        [t.reviews[i] EXCEPT !.is_suspicious =
                            IsSuspicious(calculate_suspicious_score(
                                             Measured(t.reviews[i])))]]
             flags == [i \in 1..n |-> rows[i].is_suspicious]
         IN  [tables |-> [t EXCEPT !.reviews = rows],
              results |-> [type |-> "fake_detection",
                           suspicious_percent |->
                               Percent1(CountIn(flags, TRUE), n)]]

\* aspects.py 96-99 left out: the rows of earlier runs are kept
ClearAspectsNone(rows, review_ids) == rows

\* aspects.py 96-99: the aspect rows of the product's reviews are deleted
ClearAspects(rows, review_ids) ==
    SelectSeq(rows, LAMBDA a : a.review_id \notin review_ids)

\* aspects.py 112-124: the rows of one review, one for each sentence that
\* mentions an aspect, labelled by analyze_text
AspectRows(id, text, clf) ==
    [k \in DOMAIN Mentions(text) |->
        [review_id |-> id, aspect_name |-> Mentions(text)[k].aspect,
         sentiment |-> clf[Mentions(text)[k].tone][1],
         sentiment_score |-> clf[Mentions(text)[k].tone][2]]]

RECURSIVE AllAspectRows(_, _, _)
\* aspects.py 108-124 over the reviews from the i-th on
AllAspectRows(rows, i, clf) ==
    IF i > Len(rows) THEN <<>>
    ELSE AspectRows(i, rows[i].text, clf)
            \o AllAspectRows(rows, i + 1, clf)

\* aspects.py 143-169: the entry of one aspect in the response
AspectSummary(rows, aspect) ==
    LET mine == SelectSeq(rows, LAMBDA a : a.aspect_name = aspect)
        count == Len(mine)
        total_score == SumSeq([k \in 1..count |->
                                  Signed(mine[k].sentiment,
                                         mine[k].sentiment_score)])
    IN  [aspect_name |-> aspect, total_mentions |-> count,
         \* round((total_score / count + 1) / 2, 3)
         average_score |-> Round(total_score + 1000 * count, 2 * count)]

\* analyze_product_aspects 80-178
analyze_product_aspects(t, clf) ==
    IF t.reviews = <<>>
    THEN [tables |-> t, results |-> [type |-> "aspects", aspects |-> {}]]
    ELSE LET added == AllAspectRows(t.reviews, 1, clf)
             kept == ClearAspects(t.aspects, DOMAIN t.reviews)
         IN  [tables |-> [t EXCEPT !.aspects = kept \o added],
              results |->
                 [type |-> "aspects",
                  aspects |-> {AspectSummary(added, a) :
                                  a \in {added[k].aspect_name : k \in DOMAIN added}}]]

\* generate_topic_label 104-135
generate_topic_label(keyword) ==
    IF keyword = "battery" THEN "Battery Performance" ELSE "Display Quality"

\* simple_lda 47-101, by what decides its answer here: the words counted,
\* most frequent first (ties in the order met), that at least
\* min_topic_documents documents carry
simple_lda(documents) ==
    LET carried(w) == Cardinality({i \in DOMAIN documents :
                                     Keyword(documents[i].text) = w})
        first == Keyword(documents[1].text)
        other == IF first = "screen" THEN "battery" ELSE "screen"
        ranked == IF carried(other) > carried(first) THEN <<other, first>>
                  ELSE <<first, other>>
    IN  SelectSeq(ranked, LAMBDA w : carried(w) >= min_topic_documents)

\* analyze_product_topics 138-210
analyze_product_topics(t) ==
    LET documents == SelectSeq(t.reviews, LAMBDA r : HasDocument(r.text))
    IN  IF Len(documents) < min_documents
        THEN [tables |-> t, results |-> [type |-> "topics", topics |-> <<>>]]
        ELSE LET words == simple_lda(documents)
                 rows == [k \in DOMAIN words |->
                            [topic_number |-> k,
                             topic_label |-> generate_topic_label(words[k])]]
             IN  [tables |-> [t EXCEPT !.topics = rows],
                  results |-> [type |-> "topics", topics |-> rows]]

\* generate_product_insights 47-75 and 107-125
generate_product_insights(t) ==
    IF t.reviews = <<>>
    THEN [tables |-> t,
          results |-> [type |-> "insights", overall_score |-> 5000,
                       sentiment_distribution |-> Distribution(<<>>, 1),
                       fake_review_percent |-> 0]]
    ELSE LET n == Len(t.reviews)
             labels == Labels(t.reviews)
             positive == CountIn(labels, "positive")
             negative == CountIn(labels, "negative")
             total_analyzed == positive + negative + CountIn(labels, "neutral")
             ratings == SumSeq([i \in 1..n |-> t.reviews[i].rating])
             flags == [i \in 1..n |-> t.reviews[i].is_suspicious]
             \* sentiment_score * 0.6 + rating_score * 0.4 with
             \* rating_score = (sum / n) / 5 * 100 and sentiment_score =
             \* (positive_ratio - negative_ratio + 1) / 2 * 100, or 50.0
             overall_score ==
                 IF total_analyzed > 0
                 THEN Round(3000 * (positive - negative + total_analyzed) * n
                               + 800 * ratings * total_analyzed,
                            total_analyzed * n)
                 ELSE Round(3000 * n + 800 * ratings, n)
         IN  [tables |-> t,
              results |-> [type |-> "insights",
                           overall_score |-> overall_score,
                           sentiment_distribution |->
                               Distribution(labels,
                                   IF total_analyzed > 1 THEN total_analyzed
                                   ELSE 1),
                           fake_review_percent |->
                               Percent1(CountIn(flags, TRUE), n)]]

\* scrape_product 108-127 with the commit after the analysis run
scrape_product_steps_commit_last ==
    <<"update", "delete", "add", "analysis", "commit">>

\* scrape_product 97-127 in program order: the update of the product row of
\* 98-106, the delete of line 109, the adds of 111-121, the commit of 123,
\* the await of the analysis run at 127
scrape_product_steps == <<"update", "delete", "add", "commit", "analysis">>

\* where the persistence step fails: nowhere, at the delete, at the add of
\* a row (the first, the second or the last), at the commit
NoFail == [step |-> "none", row |-> 0]
AnalysisFailed == [step |-> "analysis", row |-> 0]
PersistFailures(new) ==
    {NoFail, [step |-> "delete", row |-> 0], [step |-> "commit", row |-> 0]}
        \cup {[step |-> "add", row |-> k] :
                 k \in {n \in DOMAIN new : n <= 2 \/ n = Len(new)}}

\* db.close() that writes what the open transaction holds
close_flushing(db) == db.pending

\* base.py 131-132 (database.py 23: autocommit=False): db.close() drops what
\* the open transaction holds
close(db) == db.committed

RECURSIVE scrape_product_from(_, _, _, _)
\* The task from its i-th step on. db is the product's reviews and its
\* total_reviews as committed and as the task's open transaction holds them. It ends at the await of
\* the analysis run, which works in a database session of its own
\* (runner.py 18) and sees the committed rows, or at the step that raises,
\* whose exception leaves through the finally clause.
scrape_product_from(i, db, new, fail) ==
    LET step == scrape_product_steps[i]
        rows == NewRows(new)
    IN  IF step = "analysis"
        THEN [stored |-> db.committed, pc |-> "analysis"]
        ELSE IF fail.step = step
        THEN [stored |->
                 close(IF step = "add"
                       THEN [db EXCEPT !.pending.reviews =
                                          SubSeq(rows, 1, fail.row - 1)]
                       ELSE db),
              pc |-> "raised"]
        ELSE scrape_product_from(i + 1,
                 CASE step = "update" ->
                         \* base.py 98-100: if reviews_data
                         IF new # <<>>
                         THEN [db EXCEPT !.pending.total_reviews = Len(new)]
                         ELSE db
                   [] step = "delete" -> [db EXCEPT !.pending.reviews = <<>>]
                   [] step = "add" -> [db EXCEPT !.pending.reviews = rows]
                   [] step = "commit" -> [db EXCEPT !.committed = db.pending],
                 new, fail)

\* no stage has run
NoStage == [type |-> "none", repeat |-> FALSE]

\* no scrape_product task has run
NoScrape == [pc |-> "idle", new |-> <<>>, stage |-> 0, error |-> NoFail]

\* a classifier that finds every text positive
Positive == [tone \in Tones |-> <<"positive", 1000>>]

StoreIdle ==
    /\ tables = NoTables
    /\ scrape = NoScrape
    /\ stage_out = NoStage
    /\ classifier = Positive


(***************************************************************************)
(* simple_lda (topics.py 47-101) on the documents of a topic-stage run: a  *)
(* document is the list of tokens preprocess_text leaves of a review text. *)
(***************************************************************************)
\* topics.py 138 and 47: the target number of topics
num_topics == 5
\* topics.py 47: the length of a topic's keyword list
num_words == 10
\* topics.py 94: used_words.update(related[:5])
related_used == 5
\* topics.py 61: word_freq.most_common(100)
top_words_kept == 100

\* a document of seven tokens, three short ones that share tokens with it
\* or between them, and one apart
DocKinds == {<<1, 2, 3, 4, 5, 6, 7>>, <<1, 2, 3>>, <<2, 1, 8>>,
             <<6, 7, 8>>, <<9, 10, 11>>}

\* the documents of a run: min_documents of them (topics.py 158), of two
\* kinds
DocumentSets ==
    {[i \in 1..min_documents |-> IF i <= k THEN a ELSE b] :
        a \in DocKinds, b \in DocKinds, k \in 0..min_documents}

RECURSIVE Flatten(_)
Flatten(docs) ==
    IF docs = <<>> THEN <<>> ELSE Head(docs) \o Flatten(Tail(docs))

\* the elements of s at the positions in at, in their order
Pick(s, at) ==
    [n \in 1..Cardinality(at) |->
        s[CHOOSE i \in at : Cardinality({k \in at : k < i}) = n - 1]]

\* the keys of a Counter, in the order they were first counted
Distinct(s) ==
    Pick(s, {i \in DOMAIN s : \A k \in 1..(i - 1) : s[k] # s[i]})

RECURSIVE ByCount(_, _)
\* the keys by falling count, equal counts in the order first counted
ByCount(items, s) ==
    IF items = <<>> THEN <<>>
    ELSE LET top == Max({CountIn(s, items[i]) : i \in DOMAIN items})
             i == CHOOSE n \in DOMAIN items :
                     /\ CountIn(s, items[n]) = top
                     /\ \A m \in 1..(n - 1) : CountIn(s, items[m]) < top
         IN  <<items[i]>>
                \o ByCount(SubSeq(items, 1, i - 1)
                              \o SubSeq(items, i + 1, Len(items)), s)

\* Counter(s).most_common(n), the keys only
most_common(s, n) ==
    LET ranked == ByCount(Distinct(s), s)
    IN  SubSeq(ranked, 1, Min(n, Len(ranked)))

\* the tokens of s that are not in banned, in their order
Without(s, banned) == Pick(s, {i \in DOMAIN s : s[i] \notin banned})

RECURSIVE TopicsFrom(_, _, _, _, _)
\* the loop of topics.py 75-99 from the k-th of top_words on
TopicsFrom(top_words, k, used_words, topic_words, documents) ==
    IF k > Len(top_words) THEN topic_words
    ELSE LET word == top_words[k]
             \* word_to_docs has the first num_topics * 3 words only (65-70)
             docs_with_word ==
                 IF k <= num_topics * 3
                 THEN {i \in DOMAIN documents : word \in Range(documents[i])}
                 ELSE {}
             \* 81-86: w != word and w not in used_words
             counted ==
                 Without(Flatten([i \in DOMAIN documents |->
                                    IF i \in docs_with_word
                                    THEN documents[i] ELSE <<>>]),
                         used_words \cup {word})
             related == most_common(counted, num_words - 1)
         IN  IF /\ word \notin used_words
                /\ Len(topic_words) < num_topics
                /\ Cardinality(docs_with_word) >= min_topic_documents
             THEN TopicsFrom(top_words, k + 1,
                      used_words \cup {word}
                         \cup Range(SubSeq(related, 1,
                                           Min(related_used, Len(related)))),
                      Append(topic_words,
                             [keywords |-> <<word>> \o related,
                              doc_count |-> Cardinality(docs_with_word)]),
                      documents)
             ELSE TopicsFrom(top_words, k + 1, used_words, topic_words,
                             documents)

\* simple_lda 47-101 with its tokens and keyword lists
simple_lda_keywords(documents) ==
    TopicsFrom(most_common(Flatten(documents), top_words_kept), 1, {}, <<>>,
               documents)

\* no topic-stage run is followed
NoLda == [documents |-> <<>>, ran |-> FALSE, topic_words |-> <<>>]

(***************************************************************************)
(* The rating of a raw review (amazon.py 109-121, flipkart.py 80-87)       *)
(***************************************************************************)
\* What the markup carries where the rating is looked for: nothing, a text
\* without a number, or a number, written with or without a decimal point
\* and given in tenths.
RatingTexts ==
    {[kind |-> "missing", tenths |-> 0, point |-> FALSE],
     [kind |-> "words", tenths |-> 0, point |-> FALSE]}
       \cup {t \in [kind : {"number"}, tenths : 0..(10 * MaxStars + 5),
                    point : BOOLEAN] : ~t.point => t.tenths % 10 = 0}

\* amazon.py 114-121: the default, or int(round(float(number)))
amazon_rating(t) ==
    IF t.kind = "number" THEN Round(t.tenths, 10) ELSE 3

\* flipkart.py 81-87: the default, or int(strings[0]) when it is in 1..5;
\* int() raises ValueError on a text with a decimal point
flipkart_rating(t) ==
    IF t.kind = "number" /\ ~t.point /\ t.tenths \div 10 \in 1..5
    THEN t.tenths \div 10
    ELSE 3

\* no raw review is followed
NoRawReview == [platform |-> None, rating_text |-> None, parsed |-> FALSE,
                rating |-> 0]

PureIdle ==
    /\ lda = NoLda
    /\ raw_review = NoRawReview

(***************************************************************************)
(* The classifier singleton (sentiment.py 13-30). get_sentiment_pipeline   *)
(* is called in worker threads, by analyze_texts_batch under               *)
(* asyncio.to_thread (sentiment.py 74 and 132), and in the thread of the   *)
(* event loop, by analyze_text for the aspects stage (sentiment.py 47,     *)
(* aspects.py 114). Threads are switched between any two statements, and   *)
(* the load of the model, which reads files, takes long.                   *)
(***************************************************************************)
Callers == 1..NumCallers

\* sentiment.py 14: _sentiment_pipeline = None (the instances are numbered
\* from 1 in the order they are built)
NoPipeline == 0

\* a thread that has not called get_sentiment_pipeline yet
NewCaller == [pc |-> "idle", built |-> NoPipeline, got |-> NoPipeline]

PipelineIdle ==
    /\ sentiment_pipeline = NoPipeline
    /\ loads = 0
    /\ callers = [c \in Callers |-> NewCaller]


InitSession ==
    /\ platform \in Platforms
    /\ url_kind \in (IF platform = "amazon" THEN {"product", "no_asin"}
                                            ELSE {"product", "search"})
    /\ max_reviews \in 1..MaxReviews
    /\ pc = IF url_kind = "search" THEN "resolve" ELSE "loop"
    /\ reviews = <<>>
    /\ page = 1
    /\ consecutive_empty = 0
    /\ consecutive_errors = 0
    /\ fetched_page = 0
    /\ outcome = "start"
    /\ dup_seen = FALSE
    /\ events = <<>>
    /\ JobIdle
    /\ AnalysisIdle
    /\ ReviewIdle
    /\ PipelineIdle
    /\ StoreIdle
    /\ PureIdle

SessionFrame ==
    UNCHANGED <<platform, max_reviews, jobVars, analysisVars, reviewVars,
                pipelineVars, storeVars, pureVars>>

\* flipkart.py 215-223: a search URL is resolved to the first product link;
\* no link, or an error while fetching the search page, returns [].
ResolveSearch ==
    /\ pc = "resolve"
    /\ \E found \in BOOLEAN :
          IF found
          THEN /\ pc' = "loop"
               /\ url_kind' = "product"
               /\ outcome' = "resolved"
          ELSE /\ pc' = "returned"
               /\ url_kind' = url_kind
               /\ outcome' = "unresolved"
    /\ events' = find_product_url_from_search
    /\ UNCHANGED <<reviews, page, consecutive_empty, consecutive_errors,
                   fetched_page, dup_seen>>
    /\ SessionFrame

\* amazon.py 64-70 with 299-302: _build_reviews_url raises ValueError when the
\* URL holds no ASIN; the loop's except clause counts it as an error.
BuildUrlError ==
    /\ pc = "loop"
    /\ LoopGuard
    /\ platform = "amazon"
    /\ url_kind = "no_asin"
    /\ consecutive_errors' = consecutive_errors + 1
    /\ outcome' = "build_error"
    /\ events' = <<Wait>>
    /\ UNCHANGED <<url_kind, pc, reviews, page, consecutive_empty,
                   fetched_page, dup_seen>>
    /\ SessionFrame

\* the request's exception with no except clause around the loop body
FetchErrorUncaught ==
    /\ CanFetch
    /\ fetched_page' = page
    /\ pc' = "raised"
    /\ outcome' = "network_error"
    /\ events' = <<Delay, Fetch>>
    /\ UNCHANGED <<url_kind, reviews, page, consecutive_empty,
                   consecutive_errors, dup_seen>>
    /\ SessionFrame

\* amazon.py 299-302, flipkart.py 276-279: the request raises (transport error,
\* timeout); the except clause counts an error and the same page is tried again.
FetchError ==
    /\ CanFetch
    /\ fetched_page' = page
    /\ consecutive_errors' = consecutive_errors + 1
    /\ outcome' = "network_error"
    /\ events' = <<Delay, Fetch, Wait>>
    /\ UNCHANGED <<url_kind, pc, reviews, page, consecutive_empty, dup_seen>>
    /\ SessionFrame

\* amazon.py 203-213: status 503, 403 or 429: count an error, wait, take a fresh
\* requests.Session and 'continue' without advancing the page.
\* flipkart.py 238-242 treats every non-200 status alike: count and advance.
HardBlock ==
    /\ CanFetch
    /\ fetched_page' = page
    /\ consecutive_errors' = consecutive_errors + 1
    /\ page' = IF platform = "amazon" THEN page ELSE NextPage(page)
    /\ outcome' = "hard_block"
    /\ events' = IF platform = "amazon" THEN <<Delay, Fetch, Wait, Rotate>>
                                        ELSE <<Delay, Fetch>>
    /\ UNCHANGED <<url_kind, pc, reviews, consecutive_empty, dup_seen>>
    /\ SessionFrame

\* amazon.py 203-216, flipkart.py 238-242: any other non-200 status: count an
\* error and advance the page.
SoftBlock ==
    /\ CanFetch
    /\ fetched_page' = page
    /\ consecutive_errors' = consecutive_errors + 1
    /\ page' = NextPage(page)
    /\ outcome' = "soft_block"
    /\ events' = <<Delay, Fetch>>
    /\ UNCHANGED <<url_kind, pc, reviews, consecutive_empty, dup_seen>>
    /\ SessionFrame

\* The counters after a status-200 page on which no review was found
\* (amazon.py 275-278, flipkart.py 253-257).
EmptyPageStep ==
    /\ consecutive_empty' = consecutive_empty + 1
    /\ page' = NextPage(page)
    /\ UNCHANGED <<url_kind, pc, reviews, consecutive_errors, dup_seen>>

\* amazon.py 220-223: status 200 and the page holds the CAPTCHA input: break.
\* flipkart.py 244-257 has no CAPTCHA test: the page yields no review container
\* and is counted as an empty page.
Captcha ==
    /\ CanFetch
    /\ fetched_page' = page
    /\ outcome' = "captcha"
    /\ events' = <<Delay, Fetch>>
    /\ IF platform = "amazon"
       THEN /\ pc' = "returned"
            /\ UNCHANGED <<url_kind, reviews, page, consecutive_empty,
                           consecutive_errors, dup_seen>>
       ELSE EmptyPageStep
    /\ SessionFrame

\* amazon.py 226-231: status 200 with a block phrase in the text: count an
\* error, wait, fresh session, retry the same page.  flipkart.py has no such
\* test: the page yields no review container and is counted as empty.
BlockPhrase ==
    /\ CanFetch
    /\ fetched_page' = page
    /\ outcome' = "block_phrase"
    /\ events' = IF platform = "amazon" THEN <<Delay, Fetch, Wait, Rotate>>
                                        ELSE <<Delay, Fetch>>
    /\ IF platform = "amazon"
       THEN /\ consecutive_errors' = consecutive_errors + 1
            /\ UNCHANGED <<url_kind, pc, reviews, page, consecutive_empty, dup_seen>>
       ELSE EmptyPageStep
    /\ SessionFrame

\* The containers the loop works on: amazon.py 245-251 takes every review div;
\* flipkart.py 251 (_extract_reviews_from_soup) keeps the parsed reviews only.
PageReviewsOf(divs) == IF platform = "flipkart" THEN Filter(divs) ELSE divs

\* amazon.py 280-297, flipkart.py 259-274: a page with review containers:
\* both counters are reset, the new reviews are appended, the page advances.
ReviewsStep(divs) ==
    /\ reviews' = AddReviews(reviews, divs, max_reviews)
    /\ dup_seen' = (dup_seen \/ SkipsDuplicate(reviews, divs, max_reviews))
    /\ consecutive_empty' = 0
    /\ consecutive_errors' = 0
    /\ page' = NextPage(page)
    /\ UNCHANGED <<url_kind, pc>>

\* amazon.py 257: the fallback request is made for page 1, no error counted yet
TriesFallback == platform = "amazon" /\ page = 1 /\ consecutive_errors = 0

\* status 200, no block marker, and review containers on the page
PageWithReviews ==
    /\ CanFetch
    /\ \E found \in {PageReviewsOf(divs) : divs \in Pages} :
          /\ found # <<>>
          /\ ReviewsStep(found)
    /\ fetched_page' = page
    /\ outcome' = "reviews"
    /\ events' = <<Delay, Fetch>>
    /\ SessionFrame

\* status 200, no block marker, no review container (flipkart: none that
\* parses).  amazon.py 253-278: on page 1 with no error counted the product page
\* is fetched as a fallback; its review divs, if it answers 200 with some, are
\* used as the page's; otherwise the page counts as empty.
PageEmpty ==
    /\ CanFetch
    /\ \E divs \in Pages : PageReviewsOf(divs) = <<>>
    /\ \/ /\ EmptyPageStep
          /\ outcome' = "empty"
       \/ /\ TriesFallback
          /\ \E fb \in Pages :
                /\ fb # <<>>
                /\ ReviewsStep(fb)
          /\ outcome' = "fallback_reviews"
    /\ events' = IF TriesFallback THEN <<Delay, Fetch, Delay, Fetch>>
                                  ELSE <<Delay, Fetch>>
    /\ fetched_page' = page
    /\ SessionFrame

\* flipkart.py 226-228: the page index is past max_pages: break and return.
PageCeiling ==
    /\ pc = "loop"
    /\ LoopGuard
    /\ PageCeilingHit
    /\ pc' = "returned"
    /\ outcome' = "page_ceiling"
    /\ events' = <<>>
    /\ UNCHANGED <<url_kind, reviews, page, consecutive_empty,
                   consecutive_errors, fetched_page, dup_seen>>
    /\ SessionFrame

\* the while condition is false: 'return reviews'
LoopExit ==
    /\ pc = "loop"
    /\ ~LoopGuard
    /\ pc' = "returned"
    /\ events' = <<>>
    /\ UNCHANGED <<url_kind, reviews, page, consecutive_empty,
                   consecutive_errors, fetched_page, outcome, dup_seen>>
    /\ SessionFrame

NextSession ==
    \/ ResolveSearch
    \/ BuildUrlError
    \/ FetchError
    \/ HardBlock
    \/ SoftBlock
    \/ Captcha
    \/ BlockPhrase
    \/ PageWithReviews
    \/ PageEmpty
    \/ PageCeiling
    \/ LoopExit

SpecSession == InitSession /\ [][NextSession]_vars

\* The event loop resumes a session that is waiting on its sleep or its
\* request: a session that can take a step eventually takes one.
FairSpecSession == InitSession /\ [][NextSession]_vars /\ WF_vars(NextSession)


(***************************************************************************)
(* Job registry: routers/scraping.py, with scrape_product of               *)
(* services/scraper/base.py as run by the background driver.               *)
(*                                                                         *)
(* scrape_jobs[j] is the registry entry of job j; drivers[j] is the        *)
(* background task of job j: its arguments, its position and the locals    *)
(* of the scrape session it awaits.  A driver step runs from one           *)
(* suspension point (await) to the next.  Of a session the registry sees   *)
(* only the progress callbacks and the return, so the session's page and   *)
(* error counters (SpecSession) are left out here: a pass through the loop *)
(* that collects nothing is no step, and the session may return after any  *)
(* pass, as five failed fetches in a row make it do.                       *)
(***************************************************************************)
\* A URL, by the words the two platform tests look for: host is the set of
\* platform names in its network location, rest those elsewhere in it.
UrlAmazon == [host |-> {"amazon"}, rest |-> {}]
UrlFlipkart == [host |-> {"flipkart"}, rest |-> {}]
UrlMention == [host |-> {}, rest |-> {"flipkart"}]
UrlOther == [host |-> {}, rest |-> {}]
Urls == {UrlAmazon, UrlFlipkart, UrlMention, UrlOther}

Unsupported == "unsupported"

\* routers/scraping.py detect_platform: substring test on the whole URL
detect_platform_flipkart_dropped(url) ==
    IF "amazon" \in (url.host \cup url.rest) THEN "amazon" ELSE Unsupported
detect_platform(url) ==
    IF "amazon" \in (url.host \cup url.rest) THEN "amazon"
    ELSE IF "flipkart" \in (url.host \cup url.rest) THEN "flipkart"
    ELSE Unsupported

\* services/scraper/base.py detect_platform: substring test on the netloc
base_detect_platform(url) ==
    IF "amazon" \in url.host THEN "amazon"
    ELSE IF "flipkart" \in url.host THEN "flipkart"
    ELSE Unsupported

\* services/scraper/base.py clean_product_url: the canonical URL; the URLs of
\* the model name one product on each platform
clean_product_url(url, plat) == plat

\* datetime.utcnow(): a timestamp, told apart from None only
Stamp == "utcnow"

\* "product_id": None of a job that has no product yet (the identifiers the
\* database gives start at 1)
NoProduct == 0

Terminal == {"completed", "failed", "cancelled"}

JobIds == 1..MaxJobs

\* start_scraping 74-84: the entry a new job gets
NewJob(job_id, plat) ==
    [job_id |-> job_id, status |-> "pending", product_id |-> NoProduct,
     progress |-> 0, reviews_scraped |-> 0, message |-> <<"scraping", plat>>,
     started_at |-> None, completed_at |-> None, error |-> None]

\* the background task added by start_scraping 87, not yet run
NewDriver(url, max) ==
    [pc |-> "queued", url |-> url, max_reviews |-> max, platform |-> None,
     product_id |-> NoProduct, reviews |-> <<>>, blocked |-> FALSE]

Init ==
    /\ scrape_jobs = <<>>
    /\ drivers = <<>>
    /\ products = <<>>
    /\ response = NoCall
    /\ platform = None
    /\ url_kind = None
    /\ max_reviews = 0
    /\ pc = "idle"
    /\ reviews = <<>>
    /\ page = 1
    /\ consecutive_empty = 0
    /\ consecutive_errors = 0
    /\ fetched_page = 0
    /\ outcome = "start"
    /\ dup_seen = FALSE
    /\ events = <<>>
    /\ AnalysisIdle
    /\ ReviewIdle
    /\ PipelineIdle
    /\ StoreIdle
    /\ PureIdle

JobFrame == UNCHANGED <<sessionVars, analysisVars, reviewVars, pipelineVars, storeVars, pureVars>>

\* start_scraping 67-89 (uuid4 gives an identifier no entry has; the model
\* takes the next unused number)
StartScraping ==
    /\ \E url \in Urls, max \in 1..MaxReviews :
          LET plat == detect_platform(url)
              job_id == Len(scrape_jobs) + 1
          IN  IF plat = Unsupported
              THEN /\ response' = [op |-> "start", url |-> url, code |-> 400]
                   /\ UNCHANGED <<scrape_jobs, drivers>>
              ELSE /\ job_id \in JobIds
                   /\ scrape_jobs' = Append(scrape_jobs, NewJob(job_id, plat))
                   /\ drivers' = Append(drivers, NewDriver(url, max))
                   /\ response' = [op |-> "start", url |-> url, code |-> 200,
                                   job_id |-> job_id]
    /\ UNCHANGED products
    /\ JobFrame

\* run_scrape_job 48-51: the except clause
Failed(job, err) ==
    [job EXCEPT !.status = "failed", !.error = err, !.completed_at = Stamp]

\* run_scrape_job 41-46 without line 44: the progress is left as the last
\* callback wrote it
CompletedProgressKept(job, product_id, reviews_count) ==
    [job EXCEPT !.status = "completed", !.product_id = product_id,
                !.reviews_scraped = reviews_count,
                !.completed_at = Stamp,
                !.message = <<"scraped", reviews_count>>]

\* run_scrape_job 41-46
Completed(job, product_id, reviews_count) ==
    [job EXCEPT !.status = "completed", !.product_id = product_id,
                !.reviews_scraped = reviews_count, !.progress = 100,
                !.completed_at = Stamp,
                !.message = <<"scraped", reviews_count>>]

\* base.py 71-73 without the query of line 67: a Product is added every time
ProductsWithNoLookup(clean_url) == Append(products, clean_url)

\* base.py 67-74: the Product of the canonical URL, created when there is none
ProductsWith(clean_url) ==
    IF clean_url \in Range(products) THEN products ELSE Append(products, clean_url)
ProductId(prods, clean_url) ==
    CHOOSE i \in 1..Len(prods) : prods[i] = clean_url

\* run_scrape_job 31-39 with scrape_product 60-95, up to the session's first
\* await: the job is marked running; an unsupported netloc or a failing commit
\* of the new Product raises and the job is marked failed.
DriverStart(j) ==
    /\ j \in DOMAIN drivers
    /\ drivers[j].pc = "queued"
    /\ LET running == [scrape_jobs[j] EXCEPT !.status = "running",
                                             !.started_at = Stamp]
           plat == base_detect_platform(drivers[j].url)
           clean_url == clean_product_url(drivers[j].url, plat)
       IN  \/ /\ plat = Unsupported
              /\ scrape_jobs' = [scrape_jobs EXCEPT ![j] = Failed(running, "unsupported")]
              /\ drivers' = [drivers EXCEPT ![j].pc = "done"]
              /\ UNCHANGED products
           \/ /\ plat # Unsupported
              /\ clean_url \notin Range(products)
              /\ scrape_jobs' = [scrape_jobs EXCEPT ![j] = Failed(running, "database")]
              /\ drivers' = [drivers EXCEPT ![j].pc = "done"]
              /\ UNCHANGED products
           \/ /\ plat # Unsupported
              /\ products' = ProductsWith(clean_url)
              /\ scrape_jobs' = [scrape_jobs EXCEPT ![j] = running]
              /\ drivers' = [drivers EXCEPT ![j].pc = "session",
                                            ![j].platform = plat,
                                            ![j].product_id = ProductId(products', clean_url)]
    /\ UNCHANGED response
    /\ JobFrame

\* base.py 85-88: percent = int((current / total) * 100) if total > 0 else 0
\* (float arithmetic; it is the floor of 100 * current / total for the sizes
\* of the model)
PercentUndivided(current, total) == IF total > 0 THEN current * 100 ELSE 0
Percent(current, total) == IF total > 0 THEN (current * 100) \div total ELSE 0

\* update_job_progress 54-58
update_job_progress(jobs, job_id, progress, reviews_count) ==
    IF job_id \in DOMAIN jobs
    THEN [jobs EXCEPT ![job_id].progress = progress,
                      ![job_id].reviews_scraped = reviews_count]
    ELSE jobs

RECURSIVE CallbackCalled(_, _, _)
\* amazon.py 284-295: progress_callback is called for every container that
\* parses, new text or not, until max_reviews are held
CallbackCalled(revs, divs, max) ==
    IF divs = <<>> \/ Len(revs) >= max THEN FALSE
    ELSE Head(divs) # Unparsed \/ CallbackCalled(revs, Tail(divs), max)

\* One pass of job j's session over a page with review containers
\* (amazon.py 280-297, also with the fallback page's containers;
\* flipkart.py 259-274), with the progress callback of base.py 85-88.
SessionPage(j) ==
    /\ j \in DOMAIN drivers
    /\ drivers[j].pc = "session"
    /\ Len(drivers[j].reviews) < drivers[j].max_reviews
    /\ \E found \in {IF drivers[j].platform = "flipkart" THEN Filter(divs) ELSE divs :
                       divs \in Pages} :
          LET d == drivers[j]
              revs == AddReviews(d.reviews, found, d.max_reviews)
              called == IF d.platform = "flipkart" THEN TRUE
                        ELSE CallbackCalled(d.reviews, found, d.max_reviews)
          IN  /\ found # <<>>
              /\ drivers' = [drivers EXCEPT ![j].reviews = revs]
              /\ scrape_jobs' =
                    IF called
                    THEN update_job_progress(scrape_jobs, j,
                             Percent(Len(revs), d.max_reviews), Len(revs))
                    ELSE scrape_jobs
    /\ UNCHANGED <<products, response>>
    /\ JobFrame

\* Job j's session returns (loop guard false, page ceiling, or, on amazon, the
\* break at a CAPTCHA page) and scrape_product 97-127 goes on to its next
\* await: the reviews are replaced and committed, which may raise; the analysis
\* run may raise before its first await, and with no review it has no await
\* and ends within this step.
SessionReturn(j) ==
    /\ j \in DOMAIN drivers
    /\ drivers[j].pc = "session"
    /\ \E captcha \in BOOLEAN, result \in {"ok", "database", "analysis"} :
          LET d == drivers[j]
              n == Len(d.reviews)
          IN  /\ captcha => (d.platform = "amazon" /\ n < d.max_reviews)
              /\ IF result # "ok"
                 THEN /\ scrape_jobs' = [scrape_jobs EXCEPT ![j] = Failed(@, result)]
                      /\ drivers' = [drivers EXCEPT ![j].pc = "done",
                                                    ![j].blocked = captcha]
                 ELSE IF n = 0
                 THEN /\ scrape_jobs' = [scrape_jobs EXCEPT
                                            ![j] = Completed(@, d.product_id, n)]
                      /\ drivers' = [drivers EXCEPT ![j].pc = "done",
                                                    ![j].blocked = captcha]
                 ELSE /\ scrape_jobs' = scrape_jobs
                      /\ drivers' = [drivers EXCEPT ![j].pc = "analysis",
                                                    ![j].blocked = captcha]
    /\ UNCHANGED <<products, response>>
    /\ JobFrame

\* base.py 127-129 and run_scrape_job 41-51: the analysis run returns and the
\* job is marked completed, or it raises and the job is marked failed.
AnalysisReturn(j) ==
    /\ j \in DOMAIN drivers
    /\ drivers[j].pc = "analysis"
    /\ \E ok \in BOOLEAN :
          scrape_jobs' = [scrape_jobs EXCEPT ![j] =
              IF ok THEN Completed(@, drivers[j].product_id, Len(drivers[j].reviews))
                    ELSE Failed(@, "analysis")]
    /\ drivers' = [drivers EXCEPT ![j].pc = "done"]
    /\ UNCHANGED <<products, response>>
    /\ JobFrame

\* cancel_scrape 104-115; the answer records the status the handler found
CancelScrape(j) ==
    /\ j \in JobIds
    /\ IF j \notin DOMAIN scrape_jobs
       THEN /\ response' = [op |-> "cancel", code |-> 404]
            /\ UNCHANGED scrape_jobs
       ELSE IF scrape_jobs[j].status \in {"completed", "failed"}
       THEN /\ response' = [op |-> "cancel", code |-> 400,
                            found |-> scrape_jobs[j].status]
            /\ UNCHANGED scrape_jobs
       ELSE /\ scrape_jobs' = [scrape_jobs EXCEPT ![j].status = "cancelled",
                                                  ![j].completed_at = Stamp,
                                                  ![j].message = "cancelled by user"]
            /\ response' = [op |-> "cancel", code |-> 200,
                            found |-> scrape_jobs[j].status]
    /\ UNCHANGED <<drivers, products>>
    /\ JobFrame

\* get_scrape_status 95-98: the answer copies every field of the entry as it
\* stands when the handler runs
get_scrape_status(job_id) == scrape_jobs[job_id]

Next ==
    \/ StartScraping
    \/ \E j \in JobIds : DriverStart(j)
    \/ \E j \in JobIds : SessionPage(j)
    \/ \E j \in JobIds : SessionReturn(j)
    \/ \E j \in JobIds : AnalysisReturn(j)
    \/ \E j \in JobIds : CancelScrape(j)

Spec == Init /\ [][Next]_vars

(***************************************************************************)
(* Steps of the analysis orchestrator and of the analysis endpoints        *)
(***************************************************************************)
SessionIdle ==
    /\ platform = None
    /\ url_kind = None
    /\ max_reviews = 0
    /\ pc = "idle"
    /\ reviews = <<>>
    /\ page = 1
    /\ consecutive_empty = 0
    /\ consecutive_errors = 0
    /\ fetched_page = 0
    /\ outcome = "start"
    /\ dup_seen = FALSE
    /\ events = <<>>

InitAnalysis ==
    /\ AnalysisIdle
    /\ JobIdle
    /\ SessionIdle
    /\ ReviewIdle
    /\ PipelineIdle
    /\ StoreIdle
    /\ PureIdle

AnalysisFrame == UNCHANGED <<sessionVars, jobVars, reviewVars, pipelineVars, storeVars, pureVars>>

\* time passes
Tick ==
    /\ now < MaxTicks * ClockStep
    /\ now' = now + ClockStep
    /\ UNCHANGED <<cache, runs, reqs, last_analyzed, computed, calls>>
    /\ AnalysisFrame

\* runner.py 32: the first await of the run
StartLog == << <<"start", Stages[1]>> >>

RECURSIVE StageEndsSwallowing(_, _, _)
\* run_complete_analysis with each await in a try of its own: a stage that
\* raises is logged and the next stage is started
StageEndsSwallowing(log, k, fail) ==
    LET ended == Append(log, <<IF fail = k THEN "raise" ELSE "return", Stages[k]>>)
    IN  IF k = Len(Stages) THEN Append(ended, <<"stamp", "last_analyzed">>)
        ELSE StageEndsSwallowing(Append(ended, <<"start", Stages[k + 1]>>),
                                 k + 1, fail)

RECURSIVE StageEnds(_, _, _)
\* runner.py 32-54 from the end of stage k on: a stage that raises ends the
\* run (58-60); a stage that returns is followed by the next await, the last
\* one by the stamp of lines 51-54
StageEnds(log, k, fail) ==
    IF fail = k THEN Append(log, <<"raise", Stages[k]>>)
    ELSE LET ended == Append(log, <<"return", Stages[k]>>)
         IN  IF k = Len(Stages) THEN Append(ended, <<"stamp", "last_analyzed">>)
             ELSE StageEnds(Append(ended, <<"start", Stages[k + 1]>>), k + 1, fail)

Last(s) == s[Len(s)]

\* how the run ended: the exception left run_complete_analysis (line 60) or
\* the function returned
RunOutcome(log) == IF Last(log)[1] = "stamp" THEN "done" ELSE "raised"

NewRun(product_id) ==
    [product_id |-> product_id, pc |-> "queued", log |-> <<>>, serial |-> 0]

\* reanalyze_product 154-169: the product's cache rows are deleted and the
\* re-run is queued as a background task
ReanalyzeProduct(product_id) ==
    /\ Len(runs) < MaxRuns
    /\ cache' = SelectSeq(cache, LAMBDA e : e.product_id # product_id)
    /\ runs' = Append(runs, NewRun(product_id))
    /\ calls' = SelectSeq(calls, LAMBDA c : c.product_id # product_id)
    /\ UNCHANGED <<now, reqs, last_analyzed, computed>>
    /\ AnalysisFrame

\* The background task starts run_complete_analysis. With reviews the
\* sentiment stage suspends at sentiment.py 132; with none every stage
\* returns at its "if not reviews" and the run goes through to its end, or to
\* the stage that raises, without an await.
RunStart(r) ==
    /\ r \in DOMAIN runs
    /\ runs[r].pc = "queued"
    /\ \/ /\ runs' = [runs EXCEPT ![r].pc = "sentiment", ![r].log = StartLog]
          /\ UNCHANGED last_analyzed
       \/ \E fail \in FailurePoints :
             LET log == StageEnds(StartLog, 1, fail)
             IN  /\ runs' = [runs EXCEPT ![r].pc = RunOutcome(log),
                                         ![r].log = log,
                                         ![r].serial = computed]
                 /\ last_analyzed' =
                       IF RunOutcome(log) = "done"
                       THEN [last_analyzed EXCEPT ![runs[r].product_id] = now]
                       ELSE last_analyzed
    /\ UNCHANGED <<cache, now, reqs, computed, calls>>
    /\ AnalysisFrame

\* The classifier thread of the run's sentiment stage has ended: the stage
\* goes on from sentiment.py 134 (it stamps last_analyzed itself at 179-182
\* unless it raises) and the other stages follow without an await.
RunResume(r) ==
    /\ r \in DOMAIN runs
    /\ runs[r].pc = "sentiment"
    /\ \E fail \in FailurePoints :
          LET log == StageEnds(runs[r].log, 1, fail)
          IN  /\ runs' = [runs EXCEPT ![r].pc = RunOutcome(log),
                                      ![r].log = log,
                                      ![r].serial = computed]
              /\ last_analyzed' =
                    IF fail # 1
                    THEN [last_analyzed EXCEPT ![runs[r].product_id] = now]
                    ELSE last_analyzed
    /\ UNCHANGED <<cache, now, reqs, computed, calls>>
    /\ AnalysisFrame

DoneRuns == {r \in DOMAIN runs : runs[r].pc = "done"}

\* the two latest answers of the analysis endpoints
PushCall(cs, c) == IF Len(cs) < 2 THEN Append(cs, c) ELSE Append(Tail(cs), c)

\* every request still suspended has seen another request answered
Overlapped(rs) == [i \in DOMAIN rs |-> [rs[i] EXCEPT !.overlapped = TRUE]]

RemoveAt(s, i) == SubSeq(s, 1, i - 1) \o SubSeq(s, i + 1, Len(s))

\* analysis.py 62-63: the cached payload is answered
AnswerCached(product_id, analysis_type, cached) ==
    [product_id |-> product_id, analysis_type |-> analysis_type,
     force |-> FALSE, code |-> 200, payload |-> ResponseModel(cached),
     ran |-> FALSE, at |-> now,
     entry_at |-> cache[Max(EntriesOf(cache, product_id, analysis_type))].created_at,
     overlapped |-> FALSE, runs_done |-> DoneRuns]

\* analysis.py 67-72: the stage has returned results, which are answered
AnswerFresh(product_id, analysis_type, force, results, overlapped) ==
    [product_id |-> product_id, analysis_type |-> analysis_type,
     force |-> force, code |-> 200, payload |-> ResponseModel(results),
     ran |-> TRUE, at |-> now, entry_at |-> now,
     overlapped |-> overlapped, runs_done |-> DoneRuns]

\* analysis.py 66-72, 91-96, 115-120, 139-144 once the stage has returned:
\* the results are stored and answered
StageReturned(product_id, analysis_type, force, overlapped, rest) ==
    LET results == Result(analysis_type, product_id, computed + 1)
    IN  /\ computed' = computed + 1
        /\ cache' = save_analysis_cache(cache, product_id, analysis_type,
                                        results, now)
        /\ calls' = PushCall(calls, AnswerFresh(product_id, analysis_type,
                                                force, results, overlapped))
        /\ reqs' = Overlapped(rest)

\* get_sentiment_analysis 47-72, get_aspect_analysis 75-96, get_topic_analysis
\* 99-120, get_insights 123-144, up to the handler's first await that
\* suspends or to its end. ("if cached" is false for an empty dict as well;
\* no stage returns one.) A stage that raises before it suspends ends the
\* request with a server error and changes nothing.
GetAnalysis(product_id, analysis_type, force) ==
    LET cached == IF force THEN NoResults
                  ELSE get_cached_analysis(cache, product_id, analysis_type, now)
    IN  /\ IF cached # NoResults
           THEN /\ calls' = PushCall(calls, AnswerCached(product_id,
                                                         analysis_type, cached))
                /\ reqs' = Overlapped(reqs)
                /\ UNCHANGED <<cache, computed, last_analyzed>>
           ELSE /\ computed + Len(reqs) < MaxComputes
                /\ \/ /\ analysis_type = "sentiment"
                      /\ reqs' = Append(reqs, [product_id |-> product_id,
                                               force |-> force,
                                               overlapped |-> FALSE])
                      /\ UNCHANGED <<cache, computed, calls, last_analyzed>>
                   \/ /\ StageReturned(product_id, analysis_type, force,
                                       FALSE, reqs)
                      /\ UNCHANGED last_analyzed
        /\ UNCHANGED <<now, runs>>
        /\ AnalysisFrame

\* get_sentiment_analysis 67-72 after the classifier thread has ended: the
\* stage finishes (sentiment.py 134-199, stamping last_analyzed at 179-182)
\* and its results are stored and answered, or it raises and the request ends
\* with a server error
GetResume(i) ==
    /\ i \in DOMAIN reqs
    /\ LET req == reqs[i]
           rest == RemoveAt(reqs, i)
       IN  \/ /\ StageReturned(req.product_id, "sentiment", req.force,
                               req.overlapped, rest)
              /\ last_analyzed' = [last_analyzed EXCEPT ![req.product_id] = now]
           \/ /\ reqs' = rest
              /\ UNCHANGED <<cache, computed, calls, last_analyzed>>
    /\ UNCHANGED <<now, runs>>
    /\ AnalysisFrame

NextAnalysis ==
    \/ Tick
    \/ \E p \in ProductIds : ReanalyzeProduct(p)
    \/ \E r \in 1..MaxRuns : RunStart(r)
    \/ \E r \in 1..MaxRuns : RunResume(r)
    \/ \E p \in ProductIds, t \in AnalysisTypes, force \in BOOLEAN :
          GetAnalysis(p, t, force)
    \/ \E i \in 1..MaxComputes : GetResume(i)

SpecAnalysis == InitAnalysis /\ [][NextAnalysis]_vars

(***************************************************************************)
(* Steps that write the persisted review                                   *)
(***************************************************************************)
InitReview ==
    /\ review \in {NewReview(t) : t \in ScrapedReviews}
    /\ AnalysisIdle
    /\ JobIdle
    /\ SessionIdle
    /\ PipelineIdle
    /\ StoreIdle
    /\ PureIdle

ReviewFrame == UNCHANGED <<sessionVars, jobVars, analysisVars, pipelineVars, storeVars, pureVars>>

\* base.py 109-123: a scrape of the product that finds the review again
\* deletes the row and adds it anew, with the defaults in its analysis columns
Rescrape ==
    /\ review' = [review EXCEPT !.sentiment_label = None, !.sentiment_score = 0,
                                !.is_suspicious = FALSE, !.suspicious_score = 0,
                                !.classified = FALSE, !.scored = FALSE]
    /\ ReviewFrame

\* analyze_product_sentiment 129-160 for the review: analyze_texts_batch
\* 77-99 gives every text of the batch, cut to 512 characters, to the
\* pipeline; the label is mapped at 89-94; a batch that raises is filled
\* with neutral and 0.5
SentimentStage ==
    /\ \E label \in {"positive", "negative", "neutral"},
          score \in ClassifierScores, raised \in BOOLEAN :
          review' = [review EXCEPT
                        !.classified = TRUE,
                        !.sentiment_label = IF raised THEN "neutral" ELSE label,
                        !.sentiment_score = IF raised THEN Half ELSE score]
    /\ ReviewFrame

\* detect_fake_reviews 97-112 for the review
DetectFakeReviews ==
    /\ LET score == calculate_suspicious_score(review)
       IN  review' = [review EXCEPT !.suspicious_score = score,
                                    !.is_suspicious = IsSuspicious(score),
                                    !.scored = TRUE]
    /\ ReviewFrame

NextReview == Rescrape \/ SentimentStage \/ DetectFakeReviews

SpecReview == InitReview /\ [][NextReview]_vars

(***************************************************************************)
(* Steps of the threads that call get_sentiment_pipeline                   *)
(***************************************************************************)
InitPipeline ==
    /\ PipelineIdle
    /\ StoreIdle
    /\ PureIdle
    /\ AnalysisIdle
    /\ JobIdle
    /\ SessionIdle
    /\ ReviewIdle

PipelineFrame == UNCHANGED <<sessionVars, jobVars, analysisVars, reviewVars, storeVars, pureVars>>

\* sentiment.py 21: if _sentiment_pipeline is None
TestNone(c) ==
    /\ callers[c].pc = "idle"
    /\ callers' = [callers EXCEPT ![c].pc =
                      IF sentiment_pipeline = NoPipeline THEN "load" ELSE "return"]
    /\ UNCHANGED <<sentiment_pipeline, loads>>
    /\ PipelineFrame

\* sentiment.py 22-27, the right-hand side: pipeline("sentiment-analysis",
\* ...) loads the model and builds an instance
LoadModel(c) ==
    /\ callers[c].pc = "load"
    /\ loads' = loads + 1
    /\ callers' = [callers EXCEPT ![c].pc = "assign", ![c].built = loads + 1]
    /\ UNCHANGED sentiment_pipeline
    /\ PipelineFrame

\* sentiment.py 23: the instance is bound to the global
AssignGlobal(c) ==
    /\ callers[c].pc = "assign"
    /\ sentiment_pipeline' = callers[c].built
    /\ callers' = [callers EXCEPT ![c].pc = "return"]
    /\ UNCHANGED loads
    /\ PipelineFrame

\* sentiment.py 30: return _sentiment_pipeline
ReturnPipeline(c) ==
    /\ callers[c].pc = "return"
    /\ callers' = [callers EXCEPT ![c].pc = "returned",
                                  ![c].got = sentiment_pipeline]
    /\ UNCHANGED <<sentiment_pipeline, loads>>
    /\ PipelineFrame

NextPipeline ==
    \/ \E c \in Callers : TestNone(c)
    \/ \E c \in Callers : LoadModel(c)
    \/ \E c \in Callers : AssignGlobal(c)
    \/ \E c \in Callers : ReturnPipeline(c)

SpecPipeline == InitPipeline /\ [][NextPipeline]_vars

(***************************************************************************)
(* Stage runs on the tables of a product (an endpoint of                   *)
(* routers/analysis.py or a step of run_complete_analysis)                 *)
(***************************************************************************)
InitStages ==
    /\ tables \in {[NoTables EXCEPT !.reviews = NewRows(s),
                                     !.total_reviews = Len(s)] :
                      s \in ScrapedSets}
    /\ classifier \in Classifiers
    /\ stage_out = NoStage
    /\ scrape = NoScrape
    /\ PureIdle
    /\ PipelineIdle
    /\ AnalysisIdle
    /\ JobIdle
    /\ SessionIdle
    /\ ReviewIdle

StoreFrame ==
    UNCHANGED <<sessionVars, jobVars, analysisVars, reviewVars, pipelineVars, pureVars>>

\* what a stage returns and leaves in the tables; before is the tables as
\* the stage found them, repeat tells that the step before this one was a
\* run of the same stage
StageRan(out) ==
    /\ tables' = out.tables
    /\ stage_out' = [type |-> out.results.type, results |-> out.results,
                     before |-> tables,
                     repeat |-> stage_out.type = out.results.type]

\* the stage of that name, run on the tables
RunOf(stage, raised) ==
    CASE stage = "sentiment" ->
            analyze_product_sentiment(tables, classifier, raised)
      [] stage = "fake_detection" -> detect_fake_reviews(tables)
      [] stage = "aspects" -> analyze_product_aspects(tables, classifier)
      [] stage = "topics" -> analyze_product_topics(tables)
      [] stage = "insights" -> generate_product_insights(tables)

\* analyze_product_sentiment runs; raised: the pipeline call of the batch
\* raises (sentiment.py 96-99)
RunSentiment ==
    /\ \E raised \in BOOLEAN : StageRan(RunOf("sentiment", raised))
    /\ UNCHANGED <<scrape, classifier>>
    /\ StoreFrame

RunFakeDetection ==
    /\ StageRan(RunOf("fake_detection", FALSE))
    /\ UNCHANGED <<scrape, classifier>>
    /\ StoreFrame

RunAspects ==
    /\ StageRan(RunOf("aspects", FALSE))
    /\ UNCHANGED <<scrape, classifier>>
    /\ StoreFrame

RunTopics ==
    /\ StageRan(RunOf("topics", FALSE))
    /\ UNCHANGED <<scrape, classifier>>
    /\ StoreFrame

RunInsights ==
    /\ StageRan(RunOf("insights", FALSE))
    /\ UNCHANGED <<scrape, classifier>>
    /\ StoreFrame

NextStages ==
    \/ RunSentiment
    \/ RunFakeDetection
    \/ RunAspects
    \/ RunTopics
    \/ RunInsights

SpecStages == InitStages /\ [][NextStages]_vars

(***************************************************************************)
(* scrape_product from the return of its session on (base.py 97-132):      *)
(* the reviews are replaced in one transaction of the task's database      *)
(* session, then run_complete_analysis is awaited. The statements of lines *)
(* 97-123 run without an await.                                            *)
(***************************************************************************)
\* the review sets the tasks bring: the page-loads and the sets of
\* five-star reviews, whose rows differ by their texts
ReplacementSets ==
    {s \in ScrapedSets :
        s = LongReviews(Len(s)) \/ \A i \in DOMAIN s : s[i].rating = 5}

\* the classifiers that are sure of their label and find the long texts of
\* the second class positive
SureClassifiers ==
    {clf \in Classifiers : clf[1] = <<"positive", 1000>> /\ clf[0][2] = 1000}

InitStore ==
    /\ tables = NoTables
    /\ classifier \in SureClassifiers
    /\ stage_out = NoStage
    /\ scrape = NoScrape
    /\ PureIdle
    /\ PipelineIdle
    /\ AnalysisIdle
    /\ JobIdle
    /\ SessionIdle
    /\ ReviewIdle

\* One scrape_product task after its session has returned the reviews new:
\* lines 97-123 up to the await of line 127, or to the statement that raises.
ScrapePersistOf(sets) ==
    /\ scrape.pc # "analysis"
    /\ \E new \in sets :
          \E fail \in PersistFailures(new) :
             LET held == [reviews |-> tables.reviews,
                          total_reviews |-> tables.total_reviews]
                 end == scrape_product_from(1,
                            [committed |-> held, pending |-> held], new, fail)
             IN  /\ tables' = [tables EXCEPT
                                  !.reviews = end.stored.reviews,
                                  !.total_reviews = end.stored.total_reviews]
                 /\ scrape' = [pc |-> end.pc, new |-> new,
                               stage |-> IF end.pc = "analysis" THEN 1 ELSE 0,
                               error |-> fail]
    /\ UNCHANGED <<stage_out, classifier>>
    /\ StoreFrame

ScrapePersist == ScrapePersistOf(ReplacementSets)

\* run_complete_analysis 32-48 inside scrape_product 127: the next stage of
\* the run returns, or raises and ends the task (runner.py 58-63,
\* base.py 131-132), before its commit or after it (sentiment.py 160,
\* fake_detection.py 112, aspects.py 140, topics.py 204)
TaskStage ==
    /\ scrape.pc = "analysis"
    /\ \/ /\ scrape' = [scrape EXCEPT !.pc = "raised", !.error = AnalysisFailed]
          /\ \E wrote \in BOOLEAN :
                tables' = IF wrote
                          THEN RunOf(Stages[scrape.stage], FALSE).tables
                          ELSE tables
       \/ /\ \E raised \in BOOLEAN :
                tables' = RunOf(Stages[scrape.stage],
                                raised /\ scrape.stage = 1).tables
          /\ scrape' = IF scrape.stage = Len(Stages)
                       THEN [scrape EXCEPT !.pc = "returned"]
                       ELSE [scrape EXCEPT !.stage = scrape.stage + 1]
    /\ UNCHANGED <<stage_out, classifier>>
    /\ StoreFrame

NextStore == ScrapePersist \/ TaskStage

SpecStore == InitStore /\ [][NextStore]_vars

(***************************************************************************)
(* A re-analysis run beside the scrape tasks of the product                *)
(* (routers/analysis.py 147-169, runner.py, sentiment.py 112-160). The run *)
(* is a task of the event loop of its own: its sentiment stage loads the   *)
(* reviews at line 112 and waits for the classifier thread at 132, and     *)
(* every other task may run meanwhile.                                     *)
(***************************************************************************)
\* the review sets the tasks bring here: none or one five-star review
RaceSets == {s \in ReplacementSets : Len(s) <= 1}

InitRace ==
    /\ tables = NoTables
    /\ classifier = Positive
    /\ stage_out = NoStage
    /\ scrape = NoScrape
    /\ PureIdle
    /\ PipelineIdle
    /\ AnalysisIdle
    /\ JobIdle
    /\ SessionIdle
    /\ ReviewIdle

RaceFrame ==
    UNCHANGED <<sessionVars, jobVars, reviewVars, pipelineVars, cache, now,
                reqs, last_analyzed, computed, calls, scrape, stage_out,
                classifier, pureVars>>

\* reanalyze_product 162-167: the run is queued as a background task
QueueRun ==
    /\ Len(runs) < MaxRuns
    /\ runs' = Append(runs, [pc |-> "queued", found |-> <<>>])
    /\ UNCHANGED tables
    /\ RaceFrame

\* run_complete_analysis up to its first await that suspends: with reviews
\* the sentiment stage holds the rows it loaded (sentiment.py 112) and waits
\* at 132; with none every stage returns at its 'if not reviews'
RunLoads(r) ==
    /\ r \in DOMAIN runs
    /\ runs[r].pc = "queued"
    /\ runs' = IF tables.reviews = <<>>
               THEN [runs EXCEPT ![r].pc = "done"]
               ELSE [runs EXCEPT ![r].pc = "sentiment",
                                 ![r].found = tables.reviews]
    /\ UNCHANGED tables
    /\ RaceFrame

\* sentiment.py 134-160: the labels are written on the rows the stage
\* loaded, by their ids
LabelById(rows, found, clf) ==
    [i \in DOMAIN rows |->
        IF i \in DOMAIN found
        THEN [rows[i] EXCEPT !.sentiment_label = clf[Tone(found[i].text)][1],
                             !.sentiment_score = clf[Tone(found[i].text)][2]]
        ELSE rows[i]]

\* The classifier thread has ended and the run goes on to its end: the
\* sentiment stage writes its labels and the other stages follow without an
\* await (runner.py 36-54), or a stage raises (58-60). An UPDATE of a row
\* that a scrape has deleted meanwhile matches no row and raises, unless a
\* row the scrape added has got its id.
RunGoesOn(r) ==
    /\ r \in DOMAIN runs
    /\ runs[r].pc = "sentiment"
    /\ \/ /\ runs' = [runs EXCEPT ![r].pc = "raised"]
          /\ UNCHANGED tables
       \/ /\ Len(runs[r].found) <= Len(tables.reviews)
          /\ LET labelled == [tables EXCEPT !.reviews =
                                LabelById(tables.reviews, runs[r].found,
                                          classifier)]
                 flagged == detect_fake_reviews(labelled).tables
                 with_aspects == analyze_product_aspects(flagged, classifier).tables
             IN  tables' = analyze_product_topics(with_aspects).tables
          /\ runs' = [runs EXCEPT ![r].pc = "done"]
    /\ RaceFrame

\* a scrape_product task of the product, as ScrapePersist, with the review
\* sets of RaceSets
ScrapePersistRace == ScrapePersistOf(RaceSets)

NextRace ==
    \/ QueueRun
    \/ \E r \in 1..MaxRuns : RunLoads(r)
    \/ \E r \in 1..MaxRuns : RunGoesOn(r)
    \/ ScrapePersistRace
    \/ TaskStage

SpecRace == InitRace /\ [][NextRace]_vars

(***************************************************************************)
(* The analysis endpoints beside the scrape tasks of the product           *)
(* (routers/analysis.py 47-144, base.py 97-132). The wait of the sentiment *)
(* endpoint for the classifier thread is not followed here: a request is   *)
(* one step, from its cache lookup to its answer.                          *)
(***************************************************************************)
\* the id of the product whose tables are followed
StoreProduct == 1

\* the review sets the tasks bring here: none or one long five-star review
FreshSets == {s \in RaceSets : \A i \in DOMAIN s : s[i].text # ShortText}

InitFresh == InitRace

FreshFrame ==
    UNCHANGED <<sessionVars, scrape_jobs, drivers, products, reviewVars,
                pipelineVars, now, runs, reqs, computed, calls, scrape,
                stage_out, classifier, pureVars>>

\* the dict a stage returns, with the review set it was computed from
ResultOf(analysis_type, results, rows) ==
    [analysis_type |-> analysis_type, product_id |-> StoreProduct,
     results |-> results, of |-> Scraped(rows), form |-> "dict"]

\* get_sentiment_analysis 47-72, get_insights 123-144: the cached payload is
\* answered, or the stage runs on the tables and its results are stored and
\* answered (the sentiment stage stamps last_analyzed, sentiment.py 179-182)
GetAnalysisStore(analysis_type, force) ==
    LET cached == IF force THEN NoResults
                  ELSE get_cached_analysis(cache, StoreProduct,
                                           analysis_type, now)
        out == RunOf(analysis_type, FALSE)
        results == ResultOf(analysis_type, out.results, tables.reviews)
    IN  /\ IF cached # NoResults
           THEN /\ response' = [op |-> "analysis", cached |-> TRUE,
                                payload |-> ResponseModel(cached)]
                /\ UNCHANGED <<cache, tables, last_analyzed>>
           ELSE /\ Len(cache) < MaxComputes
                /\ tables' = out.tables
                /\ cache' = save_analysis_cache(cache, StoreProduct,
                                                analysis_type, results, now)
                /\ last_analyzed' =
                      IF analysis_type = "sentiment" /\ tables.reviews # <<>>
                      THEN [last_analyzed EXCEPT ![StoreProduct] = now]
                      ELSE last_analyzed
                /\ response' = [op |-> "analysis", cached |-> FALSE,
                                payload |-> ResponseModel(results)]
        /\ FreshFrame

ScrapePersistFresh == ScrapePersistOf(FreshSets)

NextFresh ==
    \/ Tick
    \/ ScrapePersistFresh
    \/ TaskStage
    \/ \E t \in AnalysisTypes, force \in BOOLEAN : GetAnalysisStore(t, force)

SpecFresh == InitFresh /\ [][NextFresh]_vars

(***************************************************************************)
(* One call of simple_lda, one call of a review parser                     *)
(***************************************************************************)
PureFrame ==
    UNCHANGED <<sessionVars, jobVars, analysisVars, reviewVars, pipelineVars,
                storeVars>>

InitLda ==
    /\ lda \in {[NoLda EXCEPT !.documents = d] : d \in DocumentSets}
    /\ raw_review = NoRawReview
    /\ StoreIdle
    /\ PipelineIdle
    /\ AnalysisIdle
    /\ JobIdle
    /\ SessionIdle
    /\ ReviewIdle

\* analyze_product_topics 169: topic_results = simple_lda(documents)
RunLda ==
    /\ ~lda.ran
    /\ lda' = [lda EXCEPT !.ran = TRUE,
                          !.topic_words = simple_lda_keywords(lda.documents)]
    /\ UNCHANGED raw_review
    /\ PureFrame

NextLda == RunLda

SpecLda == InitLda /\ [][NextLda]_vars

InitExtract ==
    /\ raw_review \in {[NoRawReview EXCEPT !.platform = p, !.rating_text = t] :
                          p \in Platforms, t \in RatingTexts}
    /\ lda = NoLda
    /\ StoreIdle
    /\ PipelineIdle
    /\ AnalysisIdle
    /\ JobIdle
    /\ SessionIdle
    /\ ReviewIdle

\* _parse_review (amazon.py 109-121), _parse_review_from_strings
\* (flipkart.py 80-87): the rating of the review
ParseReview ==
    /\ ~raw_review.parsed
    /\ raw_review' =
          [raw_review EXCEPT
              !.parsed = TRUE,
              !.rating = IF raw_review.platform = "amazon"
                         THEN amazon_rating(raw_review.rating_text)
                         ELSE flipkart_rating(raw_review.rating_text)]
    /\ UNCHANGED lda
    /\ PureFrame

NextExtract == ParseReview

SpecExtract == InitExtract /\ [][NextExtract]_vars

(***************************************************************************)
(* Properties of the scrape session                                        *)
(***************************************************************************)
NoDuplicates(s) == \A i, k \in 1..Len(s) : s[i] = s[k] => i = k

IsPrefix(s, t) == Len(s) <= Len(t) /\ \A i \in 1..Len(s) : s[i] = t[i]

\* C4: at every point of the loop and at the return, on both platforms, the
\* accumulated review list holds no two reviews with the same text.
C4_NoDuplicateTexts == NoDuplicates(reviews)

\* a session that was offered an already collected text again and has returned
C4_Witness ==
    /\ pc = "returned"
    /\ dup_seen
    /\ Len(reviews) = 2

\* C5: every scrape session eventually returns, whatever the pages answer.
C5_SessionTerminates == <>(pc = "returned")

\* C6: no session fetches a page whose index is above the page ceiling.
C6_NoFetchPastCeiling == fetched_page <= max_pages

\* the outcomes spec section 7 calls transient, as the session meets them
Transient == {"network_error", "hard_block", "soft_block", "block_phrase",
              "build_error"}

\* C7: soft blocks, hard blocks and network errors never leave the session as
\* an exception: such a step keeps every collected review, counts one more
\* failure and the session goes on in its loop; once the error budget is used
\* up the next step returns the list as it stands; no step ever drops or
\* reorders a collected review.
C7_TransientFailuresReturnPartial ==
    /\ [](pc # "raised")
    /\ [](consecutive_errors <= max_errors /\ consecutive_empty <= max_empty)
    /\ [][(outcome' \in Transient /\ pc = "loop" /\ pc' # "returned")
            => /\ pc' = "loop"
               /\ reviews' = reviews
               /\ consecutive_errors' + consecutive_empty'
                     = consecutive_errors + consecutive_empty + 1]_vars
    /\ [][(pc = "loop" /\ consecutive_errors >= max_errors)
            => (pc' = "returned" /\ reviews' = reviews)]_vars
    /\ [][IsPrefix(reviews, reviews')]_vars

\* a session that had collected a review, then used up its error budget on
\* failed fetches, and returned with the review still in its list
C7_Witness ==
    /\ pc = "returned"
    /\ consecutive_errors = max_errors
    /\ outcome \in {"network_error", "hard_block", "soft_block"}
    /\ Len(reviews) >= 1
    /\ Len(reviews) < max_reviews

\* C8: a fetched page with the CAPTCHA marker ends the session at once, with
\* the reviews held so far (none when it is page 1).
C8_CaptchaStopsSession ==
    outcome = "captcha" =>
        /\ pc = "returned"
        /\ (fetched_page = 1 => reviews = <<>>)


(***************************************************************************)
(* Properties of the job registry                                          *)
(***************************************************************************)
Rank(status) ==
    CASE status = "pending" -> 0
      [] status = "running" -> 1
      [] OTHER -> 2

\* C1: a job's status never goes back (pending < running < completed, failed,
\* cancelled) and a terminal status is never replaced by another status.
C1_StatusNeverReverses ==
    [][\A j \in DOMAIN scrape_jobs :
          /\ Rank(scrape_jobs'[j].status) >= Rank(scrape_jobs[j].status)
          /\ scrape_jobs[j].status \in Terminal
                => scrape_jobs'[j].status = scrape_jobs[j].status]_vars

\* C2: cancel_scrape answers with the invalid-state error when it finds the job
\* completed, failed or cancelled, and succeeds only when it finds it pending
\* or running.
C2_CancelRejectedWhenTerminal ==
    (response.op = "cancel" /\ response.code \in {200, 400}) =>
        /\ response.found \in Terminal => response.code = 400
        /\ response.code = 200 => response.found \in {"pending", "running"}

\* C3: once a job's status is terminal no step changes any field of its entry.
C3_TerminalEntryFrozen ==
    [][\A j \in DOMAIN scrape_jobs :
          scrape_jobs[j].status \in Terminal
             => scrape_jobs'[j] = scrape_jobs[j]]_vars

\* C9: a job whose session was stopped by a CAPTCHA page ends failed, with an
\* error recorded.
C9_CaptchaJobFails ==
    \A j \in DOMAIN drivers :
        (drivers[j].blocked /\ drivers[j].pc = "done")
           => (scrape_jobs[j].status = "failed" /\ scrape_jobs[j].error # None)

\* the URL names a known platform
KnownPlatformUrl(url) == (url.host \cup url.rest) \cap Platforms # {}

C11_JobEndsCompletedOrFailed ==
    \A j \in DOMAIN drivers :
        drivers[j].pc = "done" =>
            \/ /\ scrape_jobs[j].status = "completed"
               /\ scrape_jobs[j].product_id = drivers[j].product_id
               /\ scrape_jobs[j].product_id # NoProduct
               /\ scrape_jobs[j].reviews_scraped = Len(drivers[j].reviews)
               /\ scrape_jobs[j].message = <<"scraped", Len(drivers[j].reviews)>>
               /\ scrape_jobs[j].error = None
            \/ /\ scrape_jobs[j].status = "failed"
               /\ scrape_jobs[j].error \in {"unsupported", "database"}

\* C12: whenever a status read runs, the entry it copies is consistent:
\* completed comes with product_id set and progress 100, failed with an error,
\* and every terminal status with completed_at set.
C12_ReadsSeeConsistentRecord ==
    \A j \in DOMAIN scrape_jobs :
        LET job == get_scrape_status(j)
        IN  /\ job.status = "completed" =>
                  (job.product_id # NoProduct /\ job.progress = 100)
            /\ job.status = "failed" => job.error # None
            /\ job.status \in Terminal => job.completed_at # None

\* one job completed with no review (its callbacks never wrote a progress),
\* another failed after a cancel request had marked it cancelled
C12_Witness ==
    /\ Len(scrape_jobs) = 2
    /\ scrape_jobs[1].status = "completed"
    /\ scrape_jobs[1].reviews_scraped = 0
    /\ scrape_jobs[2].status = "failed"
    /\ scrape_jobs[2].message = "cancelled by user"

(***************************************************************************)
(* Properties of the analysis orchestrator and cache                       *)
(***************************************************************************)
\* the log of a run that went through every stage
FullLog ==
    << <<"start", "sentiment">>, <<"return", "sentiment">>,
       <<"start", "fake_detection">>, <<"return", "fake_detection">>,
       <<"start", "aspects">>, <<"return", "aspects">>,
       <<"start", "topics">>, <<"return", "topics">>,
       <<"start", "insights">>, <<"return", "insights">>,
       <<"stamp", "last_analyzed">> >>

\* the log without the raise that ended it
BeforeRaise(log) ==
    IF log # <<>> /\ Last(log)[1] = "raise" THEN SubSeq(log, 1, Len(log) - 1)
    ELSE log

C14_StageErrorHaltsRun ==
    /\ [](\A r \in DOMAIN runs :
            \A i \in DOMAIN runs[r].log :
                runs[r].log[i][1] = "raise"
                   => (i = Len(runs[r].log) /\ runs[r].pc = "raised"))
    /\ [][\A r \in DOMAIN runs : runs'[r] # runs[r] => cache' = cache]_vars

\* a run ended by its aspects stage, with a cache entry of its product, stored
\* before the run started its stages, still in the cache
C14_Witness ==
    \E r \in DOMAIN runs :
        /\ runs[r].pc = "raised"
        /\ Last(runs[r].log) = <<"raise", "aspects">>
        /\ \E i \in DOMAIN cache : cache[i].product_id = runs[r].product_id

\* the newest entry of the key is less than 24 hours old
HasFreshEntry(product_id, analysis_type) ==
    LET rows == EntriesOf(cache, product_id, analysis_type)
    IN  /\ rows # {}
        /\ now - cache[Max(rows)].created_at < 24 * 3600

\* the two latest answers are for the same key and neither was forced
TwoUnforcedCalls ==
    /\ Len(calls) = 2
    /\ calls[1].product_id = calls[2].product_id
    /\ calls[1].analysis_type = calls[2].analysis_type
    /\ ~calls[1].force
    /\ ~calls[2].force

\* C15, its closing sentence as stated: two non-forced calls for a key within
\* 24 hours, with no reanalyze between them, answer the same payload and run
\* the stage at most once.
C15_TwoCallsWithinDay ==
    (TwoUnforcedCalls /\ calls[2].at - calls[1].at < 24 * 3600)
       => /\ calls[2].payload = calls[1].payload
          /\ ~(calls[1].ran /\ calls[2].ran)

\* C15: a non-forced request whose key has a newest entry less than 24 hours
\* old answers that entry's payload and runs nothing; it runs the stage only
\* when the key has no entry or the newest is 24 hours old or more. A second
\* non-forced request that starts after the first was answered, with no
\* reanalyze and no other answer between them, made less than 24 hours after
\* the entry the first one answered or stored was created, answers the same
\* payload and runs nothing.
C15_CacheLookup ==
    /\ [][(calls' # calls /\ runs' = runs /\ Len(reqs') = Len(reqs)
             /\ ~Last(calls').force)
            => LET c == Last(calls')
                   rows == EntriesOf(cache, c.product_id, c.analysis_type)
               IN  IF HasFreshEntry(c.product_id, c.analysis_type)
                   THEN /\ c.payload = ResponseModel(cache[Max(rows)].results)
                        /\ ~c.ran
                        /\ cache' = cache
                        /\ computed' = computed
                   ELSE c.ran]_vars
    /\ [][(Len(reqs') > Len(reqs) /\ ~Last(reqs').force)
            => ~HasFreshEntry(Last(reqs').product_id, "sentiment")]_vars
    /\ []((TwoUnforcedCalls /\ ~calls[2].overlapped
             /\ calls[2].at - calls[1].entry_at < 24 * 3600)
            => (calls[2].payload = calls[1].payload /\ ~calls[2].ran))

\* a request ran the stage and, 12 hours later, a second one was answered
\* from the cache
C15_Witness ==
    /\ TwoUnforcedCalls
    /\ calls[1].ran
    /\ ~calls[2].ran
    /\ calls[2].payload = calls[1].payload
    /\ calls[2].at > calls[1].at

\* C16: a stage run of an endpoint that returns adds one cache entry, for its
\* key, holding the result it answers, and leaves the entries there were as
\* they are; a forced request runs the stage whatever the cache holds.
C16_StageRunAppendsEntry ==
    /\ [][computed' # computed
            => /\ cache' = Append(cache, Last(cache'))
               /\ calls' # <<>>
               /\ Last(calls').ran
               /\ Last(cache').product_id = Last(calls').product_id
               /\ Last(cache').analysis_type = Last(calls').analysis_type
               /\ ResponseModel(Last(cache').results) = Last(calls').payload
               /\ Last(cache').created_at = now]_vars
    /\ [][(calls' # calls /\ runs' = runs) => computed' = computed + 1
             \/ (~Last(calls').ran /\ cache' = cache)]_vars
    /\ [](\A i \in DOMAIN calls : calls[i].force => calls[i].ran)

\* a forced request was answered while its key had an entry less than 24
\* hours old, which is still in the cache next to the new one
C16_Witness ==
    /\ calls # <<>>
    /\ Last(calls).force
    /\ Len(cache) = 2
    /\ cache[1].product_id = cache[2].product_id
    /\ cache[1].analysis_type = cache[2].analysis_type
    /\ now - cache[1].created_at < 24 * 3600
    /\ cache[1].results # cache[2].results

\* reanalyze deletes the cache entries of its product, and of no other, in
\* the step that queues the re-run, before any stage of it has started
ReanalyzeClearsProductCache ==
    [][Len(runs') > Len(runs)
         => /\ Last(runs').log = <<>>
            /\ \A i \in DOMAIN cache' :
                  cache'[i].product_id # Last(runs').product_id
            /\ \A i \in DOMAIN cache :
                  cache[i].product_id # Last(runs').product_id
                     => \E k \in DOMAIN cache' : cache'[k] = cache[i]]_vars

C18_SuspiciousScoreRange ==
    /\ review.suspicious_score \in 0..100
    /\ review.is_suspicious <=> review.suspicious_score >= 50

\* detect_fake_reviews gave the review exactly 50 and marked it suspicious
C18_Witness ==
    /\ review.scored
    /\ review.suspicious_score = 50
    /\ review.is_suspicious

\* C19: the score detect_fake_reviews writes is min(100, S), S being the sum
\* of 30 for fewer than 10 words with rating 1 or 5, else 15 for fewer than
\* 20 words with rating 1 or 5; 25 when unverified; 5 per generic phrase up
\* to 20; 10 for more than half of the characters in upper case; 5 for more
\* than 3 exclamation marks; 10 for fewer than 5 words; 10 for rating 5 with
\* fewer than 15 words; 10 when any spam pattern matches. An unverified
\* one-word review of rating 1 scores 65 or more and is suspicious.
C19_ScoreIsClampedSum ==
    review.scored =>
        LET extreme == review.rating = 1 \/ review.rating = 5
            S == (IF review.words < 10 /\ extreme THEN 30
                  ELSE IF review.words < 20 /\ extreme THEN 15 ELSE 0)
                 + (IF review.verified THEN 0 ELSE 25)
                 + (IF 5 * review.generic < 20 THEN 5 * review.generic ELSE 20)
                 + (IF review.length > 0 /\ 2 * review.upper > review.length
                    THEN 10 ELSE 0)
                 + (IF review.exclamations >= 4 THEN 5 ELSE 0)
                 + (IF review.words <= 4 THEN 10 ELSE 0)
                 + (IF review.rating = 5 /\ review.words <= 14 THEN 10 ELSE 0)
                 + (IF review.spam >= 1 THEN 10 ELSE 0)
        IN  /\ review.suspicious_score = (IF S > 100 THEN 100 ELSE S)
            /\ (~review.verified /\ review.words = 1 /\ review.rating = 1)
                  => (review.suspicious_score >= 65 /\ review.is_suspicious)

\* an unverified one-word review of rating 1 with no other signal was scored
\* 65
C19_Witness ==
    /\ review.scored
    /\ ~review.verified
    /\ review.words = 1
    /\ review.rating = 1
    /\ review.suspicious_score = 65
    /\ review.is_suspicious

\* C20: a review whose text is empty or shorter than 3 characters, once the
\* sentiment stage has written it, is neutral with score 0.5 and its text was
\* not given to the classifier.
C20_ShortTextBypassesClassifier ==
    (review.length < 3 /\ review.sentiment_label # None)
       => /\ review.sentiment_label = "neutral"
          /\ review.sentiment_score = Half
          /\ ~review.classified

(***************************************************************************)
(* Properties of the session's network steps                               *)
(***************************************************************************)
\* C28: every request a session makes, for a review page, for the fallback
\* page, for the search page or as a retry, comes right after a randomized
\* sleep of its own; no request is the first thing a session does.
C28_EveryFetchDelayed ==
    \A i \in DOMAIN events :
        events[i] = Fetch => (i > 1 /\ events[i - 1] = Delay)

\* the step just taken met a status 503, 403 or 429 or a block phrase
HardBlocked(o, e) == o \in {"hard_block", "block_phrase"} /\ e # <<>>

\* C29: on a status 503, 403 or 429 or a block phrase, on either platform,
\* the step takes a fresh client session, counts one more error and leaves
\* the page index as it is, and the next request is for the same page index.
C29_HardBlockRetriesSamePage ==
    /\ [][HardBlocked(outcome', events')
            => /\ Rotate \in Range(events')
               /\ consecutive_errors' = consecutive_errors + 1
               /\ page' = page]_vars
    /\ [][(HardBlocked(outcome, events) /\ Fetch \in Range(events'))
            => fetched_page' = fetched_page]_vars

\* C30: on any other status than 200 and on a request that raises, on either
\* platform, the step counts one more error and moves to the next page index.
C30_SoftBlockAndNetworkErrorAdvance ==
    [][(outcome' \in {"soft_block", "network_error"} /\ events' # <<>>)
         => /\ consecutive_errors' = consecutive_errors + 1
            /\ (page' = page + 1 \/ page = PageCap)]_vars

(***************************************************************************)
(* Properties of the products and of cancelled jobs                        *)
(***************************************************************************)
\* C24: no two Products have the same canonical URL; a scrape whose URL
\* cleans to the URL of an existing Product works on that Product and adds
\* none, and one whose canonical URL is new adds exactly one.
C24_OneProductPerCanonicalUrl ==
    /\ [](NoDuplicates(products))
    /\ [][\A j \in DOMAIN drivers :
            (drivers[j].pc = "queued" /\ drivers'[j].pc = "session")
               => LET clean_url == clean_product_url(drivers[j].url,
                                       base_detect_platform(drivers[j].url))
                  IN  /\ products'[drivers'[j].product_id] = clean_url
                      /\ IF clean_url \in Range(products)
                         THEN products' = products
                         ELSE products' = Append(products, clean_url)]_vars

\* two scrapes of the same canonical URL are under way on the one Product
C24_Witness ==
    /\ Len(drivers) = 2
    /\ drivers[1].pc = "session"
    /\ drivers[2].pc = "session"
    /\ drivers[1].product_id = drivers[2].product_id
    /\ Len(products) = 1

\* C27: once a running job has been cancelled, its session does not go on to
\* replace the product's reviews: the task of the job never reaches the
\* commit of scrape_product and the analysis behind it.
C27_CancelledSessionStops ==
    [][\A j \in DOMAIN drivers :
          (scrape_jobs[j].status = "cancelled" /\ drivers[j].pc = "session")
             => /\ drivers'[j].pc # "analysis"
                /\ scrape_jobs'[j].status # "completed"
                /\ scrape_jobs'[j].error # "analysis"]_vars

(***************************************************************************)
(* Properties of the classifier singleton                                  *)
(***************************************************************************)
\* C23: however the first calls of get_sentiment_pipeline interleave, the
\* model is loaded once and every caller is returned the same instance.
C23_PipelineBuiltOnce ==
    /\ loads <= 1
    /\ \A c, d \in Callers :
          (callers[c].pc = "returned" /\ callers[d].pc = "returned")
             => callers[c].got = callers[d].got

(***************************************************************************)
(* Properties of the analysis stages on the tables of a product            *)
(***************************************************************************)
\* percentages are kept in tenths, overall scores in hundredths, the
\* normalised aspect score in thousandths
InPercent(distribution) ==
    /\ distribution.positive_percent \in 0..1000
    /\ distribution.negative_percent \in 0..1000
    /\ distribution.neutral_percent \in 0..1000

\* C21: whatever review set the scrapers have persisted and whatever the
\* classifier answers with a confidence between 0 and 1, the overall score
\* and the percentages of the sentiment stage and of the insights stage and
\* the fake-review percentage lie between 0 and 100, and the average score
\* of every aspect lies between 0 and 1.
C21_ScoresInRange ==
    /\ stage_out.type = "sentiment"
          => /\ stage_out.results.overall_score \in 0..10000
             /\ InPercent(stage_out.results.distribution)
    /\ stage_out.type = "insights"
          => /\ stage_out.results.overall_score \in 0..10000
             /\ InPercent(stage_out.results.sentiment_distribution)
             /\ stage_out.results.fake_review_percent \in 0..1000
    /\ stage_out.type = "fake_detection"
          => stage_out.results.suspicious_percent \in 0..1000
    /\ stage_out.type = "aspects"
          => \A a \in stage_out.results.aspects : a.average_score \in 0..1000

\* the (aspect_name, sentiment) pairs stored for a review
AspectPairs(rows, id) ==
    {<<rows[k].aspect_name, rows[k].sentiment>> :
        k \in {n \in DOMAIN rows : rows[n].review_id = id}}

TopicLabels(rows) == {rows[k].topic_label : k \in DOMAIN rows}

\* C22: when the aspect stage, or the topic stage, runs a second time right
\* after a run of the same stage, the reviews and the classifier being the
\* same, the stored rows are as the first run left them: as many rows, the
\* same (aspect_name, sentiment) pairs for every review, the same topic
\* labels.
C22_RerunIdempotent ==
    /\ (stage_out.type = "aspects" /\ stage_out.repeat)
          => /\ Len(tables.aspects) = Len(stage_out.before.aspects)
             /\ \A id \in DOMAIN tables.reviews :
                   AspectPairs(tables.aspects, id)
                      = AspectPairs(stage_out.before.aspects, id)
    /\ (stage_out.type = "topics" /\ stage_out.repeat)
          => /\ Len(tables.topics) = Len(stage_out.before.topics)
             /\ TopicLabels(tables.topics) = TopicLabels(stage_out.before.topics)

\* the aspect stage has run twice in a row on ten reviews that mention
\* aspects in four sentences, the topic stage having stored its two topics
C22_Witness ==
    /\ stage_out.type = "aspects"
    /\ stage_out.repeat
    /\ Len(tables.aspects) = 4
    /\ Len(tables.topics) = 2

(***************************************************************************)
(* Properties of the replacement of a product's reviews                    *)
(***************************************************************************)
\* C25: when the analysis run of scrape_product is about to start its first
\* stage, the committed reviews of the product are the rows of the new set,
\* and when a stage of that run raises, the reviews the scrape committed
\* are all still stored, texts and ratings as committed (the stages that
\* returned have written their analysis columns).
C25_ReviewsCommittedBeforeAnalysis ==
    /\ []((scrape.pc = "analysis" /\ scrape.stage = 1)
             => tables.reviews = NewRows(scrape.new))
    /\ [][(scrape.pc = "analysis" /\ scrape'.pc = "raised")
             => /\ scrape'.new = scrape.new
                /\ Scraped(tables'.reviews) = scrape.new]_vars

\* the aspects stage of a task's analysis run has raised, the two reviews of
\* the scrape being stored with the label the sentiment stage gave them
C25_Witness ==
    /\ scrape.pc = "raised"
    /\ scrape.error = AnalysisFailed
    /\ scrape.stage = 3
    /\ Len(scrape.new) = 2
    /\ Scraped(tables.reviews) = scrape.new
    /\ tables.reviews[1].sentiment_label # None

\* C26: a scrape_product task that has come to its persistence step leaves
\* the reviews of the product either exactly as they were or exactly the
\* rows of the new set, wherever between the delete and the commit it may
\* fail; when nothing fails they are the rows of the new set.
C26_ReplaceIsAtomic ==
    [][scrape.pc # "analysis"
          => /\ tables'.reviews \in {tables.reviews, NewRows(scrape'.new)}
             /\ scrape'.pc = "analysis"
                   => tables'.reviews = NewRows(scrape'.new)]_vars

\* the add of the second of two new rows has raised; the one review stored
\* before, labelled by an earlier analysis, is what the product has
C26_Witness ==
    /\ scrape.pc = "raised"
    /\ scrape.error = [step |-> "add", row |-> 2]
    /\ Len(scrape.new) = 2
    /\ Len(tables.reviews) = 1
    /\ tables.reviews[1].sentiment_label # None

\* C31: when the topic stage of a task's analysis run returns, the topic
\* rows stored for the product are the topics that run returned, also when
\* it returned none.
C31_TopicRowsAreTheRunsTopics ==
    [][(scrape.pc = "analysis" /\ scrape.stage = 4 /\ scrape'.stage = 5)
          => tables'.topics = analyze_product_topics(tables).results.topics]_vars

\* C40: on both platforms the list a session holds, and returns, never has
\* more than max_reviews reviews, and no step of the session fetches a page
\* once max_reviews reviews are held.
C40_NeverMoreThanMaxReviews ==
    /\ [](Len(reviews) <= max_reviews)
    /\ [][(Fetch \in Range(events')) => Len(reviews) < max_reviews]_vars

\* a session that asked for one review has returned it from a first page
\* that carried a second, new one as well
C40_Witness ==
    /\ pc = "returned"
    /\ max_reviews = 1
    /\ Len(reviews) = 1
    /\ fetched_page = 1
    /\ outcome = "reviews"

\* C35: every job has a progress between 0 and 100 and a reviews_scraped
\* between 0 and the max_reviews it asked for, and while the job's session
\* or its analysis runs no step makes either value smaller: not a progress
\* update, not the completion.
C35_ProgressBoundedAndMonotonic ==
    /\ [](\A j \in DOMAIN scrape_jobs :
             /\ scrape_jobs[j].progress \in 0..100
             /\ scrape_jobs[j].reviews_scraped \in 0..drivers[j].max_reviews)
    /\ [][\A j \in DOMAIN scrape_jobs :
             drivers[j].pc \in {"session", "analysis"}
                => /\ scrape_jobs'[j].progress >= scrape_jobs[j].progress
                   /\ scrape_jobs'[j].reviews_scraped
                         >= scrape_jobs[j].reviews_scraped]_vars

\* a job that asked for two reviews has completed with both, after a
\* progress update at one review
C35_Witness ==
    \E j \in DOMAIN scrape_jobs :
       /\ scrape_jobs[j].status = "completed"
       /\ drivers[j].max_reviews = 2
       /\ scrape_jobs[j].reviews_scraped = 2
       /\ scrape_jobs[j].progress = 100

\* C39: every URL that start_scraping has accepted is given the same
\* platform by the detect_platform of scrape_product, and no job ends with
\* the unsupported-platform error.
C39_PlatformChecksAgree ==
    \A j \in DOMAIN scrape_jobs :
       /\ detect_platform(drivers[j].url) = base_detect_platform(drivers[j].url)
       /\ scrape_jobs[j].error # "unsupported"

\* C34: Product.last_analyzed of a product changes only in a step in which
\* an orchestrator run for that product ends with all five stages returned;
\* a run that a stage after sentiment ends with an exception leaves it as it
\* was.
C34_LastAnalyzedOnlyAfterFullRun ==
    /\ [][\A p \in ProductIds :
             last_analyzed'[p] # last_analyzed[p]
                => \E r \in DOMAIN runs :
                      /\ runs[r].product_id = p
                      /\ runs[r].pc # "done"
                      /\ runs'[r].pc = "done"]_vars
    /\ [][\A r \in DOMAIN runs :
             (runs[r].pc # "raised" /\ runs'[r].pc = "raised")
                => last_analyzed'[runs[r].product_id]
                      = last_analyzed[runs[r].product_id]]_vars

\* C38: when a scrape_product task has returned, also one whose session
\* brought no review for a product that had some, Product.total_reviews is
\* the number of review rows stored for the product.
C38_TotalReviewsIsRowCount ==
    scrape.pc = "returned" => tables.total_reviews = Len(tables.reviews)

\* C37: while an orchestrator run for the product is between its start and
\* its end, suspended in its sentiment stage, the reviews stored for the
\* product are the ones the run loaded: no scrape has replaced them.
C37_ReviewsStableDuringRun ==
    \A r \in DOMAIN runs :
       runs[r].pc = "sentiment"
          => Scraped(tables.reviews) = Scraped(runs[r].found)

\* C36: a request that is not forced and is answered from the cache gets a
\* payload computed from the reviews the product has when it is answered,
\* never from a review set that a scrape has replaced since.
C36_NoCachedPayloadOfReplacedReviews ==
    [][(response'.op = "analysis" /\ response' # response)
          => (response'.cached
                 => response'.payload.of = Scraped(tables'.reviews))]_vars

\* C32: the topics one call of simple_lda returns are at most num_topics,
\* and no token is in the keyword lists of two of them.
C32_TopicsDisjointAndBounded ==
    lda.ran
       => /\ Len(lda.topic_words) <= num_topics
          /\ \A i, k \in DOMAIN lda.topic_words :
                i # k => Range(lda.topic_words[i].keywords)
                            \cap Range(lda.topic_words[k].keywords) = {}

\* C33: the rating of every raw review, of either platform, is an integer
\* from 1 to 5, and it is 3 when the markup carries no rating, no number, or
\* a number that gives no rating from 1 to 5.
C33_RawRatingInRange ==
    raw_review.parsed
       => /\ raw_review.rating \in Ratings
          /\ (\/ raw_review.rating_text.kind # "number"
              \/ Round(raw_review.rating_text.tenths, 10) \notin Ratings)
                => raw_review.rating = 3

====
